---- MODULE Spec2Model ----
(***************************************************************************)
(* Model of the toolpath segmenter (am/segmenter/parse.py, gcode.py), the  *)
(* thermal grid (am/solver/mesh.py) and the Eagar-Tsai heat source         *)
(* (am/solver/model/eagar_tsai.py).                                        *)
(*                                                                         *)
(* Numbers.  The program computes in floating point; the model computes    *)
(* in integers.  Lengths are integer multiples of one length unit u; the   *)
(* inputs are drawn from sets on which every square root, quotient and     *)
(* sine/cosine product the code takes is an exact integer, so that the     *)
(* integer result is the value the code computes.  An angle is held as the *)
(* reduced integer direction <<a, b>> of its ray (arctan2 is one-to-one on *)
(* these); the angle 0 is <<1, 0>>.  The heat source, whose exponentials  *)
(* and roots are not integers, is computed in fixed point (see there).     *)
(***************************************************************************)
EXTENDS Integers, Sequences, FiniteSets, TLC

VARIABLES
    arg_commands,       \* commands_to_segments: the `commands` argument
    arg_max_length,     \* commands_to_segments: the `max_segment_length` argument
    segmented,          \* commands_to_segments has returned
    segments,           \* SegmenterParse.segments
    segments_pair,      \* history: for each entry of segments, the command_index of the loop pass that appended it
    mesh_parameters,    \* the MeshParameters of the run
    grid_offset,        \* the preheat temperature of the run: fill_value, grid_offset and t_0
    mesh,               \* the SolverMesh instance
    raised,             \* the exception the last call on mesh raised, or NoException
    calls,              \* history: the calls made on mesh, in order (name and arguments; dt of forward in 1 / Scale time units)
    file,               \* the file np.savez_compressed wrote, held as <<[name, data]>>, or NoFile
    saved_path,         \* the path save returned, held as <<path>>, or NoPath
    ref,                \* the mesh as it was when file was written (the pair's reference)
    twin,               \* the SolverMesh returned by load, or NoMesh
    twin_raised,        \* the exception load raised, or NoException
    pair_raised,        \* the exceptions the last paired call raised on <<ref, twin>>
    pair_calls,         \* history: the calls made on both ref and twin, in order
    segments_file,      \* the JSON document save_segments wrote, or NoFile
    saved_segments,     \* history: the list save_segments was given
    loaded,             \* load_segments has been called
    load_raised,        \* the exception load_segments raised, or NoException
    last_grid_padded,   \* history: grid_padded of the last diffuse call that built it, after the boundary condition
    layer_segments,     \* run_layer: the `segments` argument
    pc,                 \* run_layer: the statement that runs next
    run_out_path,       \* run_layer: whether the run directory has been made
    run_raised,         \* run_layer: the exception it ended with, or NoException
    run_calls,          \* history: the calls run_layer has made on the mesh, in order
    snapshots,          \* the archives run_layer has written, in order
    default_system,     \* SegmenterParse.config.ureg.default_system
    gcode_lines,        \* gcode_to_commands: the lines of the file
    pending_files,      \* the files that later calls of gcode_to_commands on the instance will parse
    parsed,             \* gcode_to_commands has been called
    self_commands,      \* SegmenterParse.commands
    commands_layer_change_indexes,  \* SegmenterParse.commands_layer_change_indexes
    command_unit,       \* the unit _unit the values of self.commands carry, held as <<unit>>, or NoUnit
    parse_raised,       \* the exception gcode_to_commands raised, or NoException
    process_map,        \* run_process_map: the `process_map` argument
    num_proc,           \* run_process_map: the `num_proc` argument
    heap,               \* the BuildParameters objects, by address; address 1 is the `build_parameters` argument
    args_list,          \* run_process_map: for each task, the address of its BuildParameters
    futures,            \* run_process_map: the state and result of each submitted task
    points,             \* run_process_map: the local list points
    returned,           \* the ProcessMapPoints run_process_map returned (and saved), held as <<p>>
    total_sections,     \* slice_sections: len(self.sections)
    has_progress_callback,  \* SlicerPlanar.progress_callback is not None
    slicer_num_proc,    \* slice_sections: the `num_proc` argument
    slicer_section_index,   \* slice_sections: the sections the single-process loop has done
    slicer_futures,     \* slice_sections: the state of each submitted task
    completed_count,    \* slice_sections: the local variable completed_count
    progress_calls,     \* history: the arguments (current, total) of each progress_callback call, in order
    slicer_returned     \* slice_sections has returned

segvars == <<arg_commands, arg_max_length, segmented, segments, segments_pair>>

meshvars == <<mesh_parameters, grid_offset, mesh, raised, calls>>

pairvars == <<file, saved_path, ref, twin, twin_raised, pair_raised, pair_calls>>

iovars == <<segments_file, saved_segments, loaded, load_raised>>

diffvars == <<last_grid_padded>>

drivervars == <<layer_segments, pc, run_out_path, run_raised, run_calls, snapshots>>

parsevars == <<default_system, gcode_lines, pending_files, parsed, self_commands,
              commands_layer_change_indexes, command_unit, parse_raised>>

mapvars == <<process_map, num_proc, heap, args_list, futures, points, returned>>

slicervars == <<total_sections, has_progress_callback, slicer_num_proc, slicer_section_index,
                slicer_futures, completed_count, progress_calls, slicer_returned>>

restvars == <<iovars, diffvars, drivervars, parsevars, mapvars, slicervars>>

vars == <<segvars, meshvars, pairvars, restvars>>

(***************************************************************************)
(* Bounds                                                                  *)
(***************************************************************************)
MaxCommands == 3

\* x,y positions a command may take (u); every pairwise distance is an integer (15, 20, 25)
Points == {<<0, 0>>, <<15, 0>>, <<15, 20>>}
ZLevels == {0, 1}
Extrusions == {-1, 0, 1}
\* values of max_segment_length (u); 5 u stand for 1 mm
SegmentLengths == {5, 10}

(***************************************************************************)
(* Arithmetic helpers                                                      *)
(***************************************************************************)
Abs(n) == IF n < 0 THEN -n ELSE n

Max(a, b) == IF a >= b THEN a ELSE b

Min(a, b) == IF a <= b THEN a ELSE b

\* floor of the square root; exact on the squares the inputs produce
Isqrt(n) == CHOOSE r \in 0..n : r * r <= n /\ (r + 1) * (r + 1) > n

RECURSIVE Gcd(_, _)
Gcd(a, b) == IF b = 0 THEN a ELSE Gcd(b, a % b)

\* ceil(a / b) for a >= 0, b > 0
CeilDiv(a, b) == (a + b - 1) \div b

\* concatenation of a sequence of sequences
RECURSIVE Flatten(_)
Flatten(ss) == IF ss = <<>> THEN <<>> ELSE Head(ss) \o Flatten(Tail(ss))

RECURSIVE SumSeq(_)
SumSeq(s) == IF s = <<>> THEN 0 ELSE Head(s) + SumSeq(Tail(s))

\* all sequences over S of length 0..n
SeqsUpTo(S, n) == UNION {[1..k -> S] : k \in 0..n}

(***************************************************************************)
(* Segmenter: types                                                        *)
(***************************************************************************)
Command == [x : {p[1] : p \in Points}, y : {p[2] : p \in Points}, z : ZLevels, e : Extrusions]

Commands == {c \in Command : <<c.x, c.y>> \in Points}

\* np.arctan2(dy, dx): the direction of the ray; arctan2(0, 0) = 0
Arctan2(dy, dx) ==
    IF dx = 0 /\ dy = 0 THEN <<1, 0>>
    ELSE LET g == Gcd(Abs(dx), Abs(dy)) IN <<dx \div g, dy \div g>>

\* length of the direction vector of an angle
AngleNorm(angle) == Isqrt(angle[1] * angle[1] + angle[2] * angle[2])

\* distance * np.cos(angle), distance * np.sin(angle)
TimesCos(distance, angle) == (distance * angle[1]) \div AngleNorm(angle)

TimesSin(distance, angle) == (distance * angle[2]) \div AngleNorm(angle)

(***************************************************************************)
(* Segmenter: commands_to_segments                                         *)
(***************************************************************************)
\* (dx**2 + dy**2) ** 0.5
DistanceXY(current_command, next_command) ==
    LET dx == next_command.x - current_command.x
        dy == next_command.y - current_command.y
    IN  Isqrt(dx * dx + dy * dy)

\* the list segment_distances of one loop pass
SegmentDistances(distance_xy, max_segment_length) ==
    LET quotient == distance_xy \div max_segment_length
        remainder == distance_xy % max_segment_length
        full == [k \in 1..quotient |-> max_segment_length]
        with_remainder == IF remainder > 0 THEN Append(full, remainder) ELSE full
    IN  IF Len(with_remainder) = 0 THEN <<0>> ELSE with_remainder

\* travel flag of one loop pass
TravelMutantStrict(next_command) == next_command.e < 0

Travel(next_command) == next_command.e <= 0

\* the inner loop: the segments appended for the remaining segment_distances,
\* from the running endpoint (prev_x, prev_y) and running angle prev_angle_xy
RECURSIVE SubSegmentsMutantNextZE(_, _, _, _, _, _, _)
SubSegmentsMutantNextZE(current_command, next_command, distances, segment_index, prev_x, prev_y, prev_angle_xy) ==
    IF segment_index > Len(distances) THEN <<>>
    ELSE
        LET segment_distance == distances[segment_index]
            next_x == prev_x + TimesCos(segment_distance, prev_angle_xy)
            next_y == prev_y + TimesSin(segment_distance, prev_angle_xy)
            next_angle_xy == Arctan2(next_y - prev_y, next_x - prev_x)
            segment == [x |-> prev_x,
                        y |-> prev_y,
                        z |-> current_command.z,
                        e |-> current_command.e,
                        x_next |-> next_x,
                        y_next |-> next_y,
                        z_next |-> next_command.z,
                        e_next |-> next_command.e,
                        angle_xy |-> next_angle_xy,
                        distance_xy |-> segment_distance,
                        travel |-> Travel(next_command)]
        IN  <<segment>> \o SubSegmentsMutantNextZE(current_command, next_command, distances,
                                                   segment_index + 1, next_x, next_y, next_angle_xy)

RECURSIVE SubSegments(_, _, _, _, _, _, _)
SubSegments(current_command, next_command, distances, segment_index, prev_x, prev_y, prev_angle_xy) ==
    IF segment_index > Len(distances) THEN <<>>
    ELSE
        LET segment_distance == distances[segment_index]
            next_x == prev_x + TimesCos(segment_distance, prev_angle_xy)
            next_y == prev_y + TimesSin(segment_distance, prev_angle_xy)
            next_angle_xy == Arctan2(next_y - prev_y, next_x - prev_x)
            last == segment_index = Len(distances)
            segment == [x |-> prev_x,
                        y |-> prev_y,
                        z |-> current_command.z,
                        e |-> current_command.e,
                        x_next |-> next_x,
                        y_next |-> next_y,
                        z_next |-> IF last THEN next_command.z ELSE current_command.z,
                        e_next |-> IF last THEN next_command.e ELSE current_command.e,
                        angle_xy |-> next_angle_xy,
                        distance_xy |-> segment_distance,
                        travel |-> Travel(next_command)]
        IN  <<segment>> \o SubSegments(current_command, next_command, distances,
                                       segment_index + 1, next_x, next_y, next_angle_xy)

\* one pass of the outer loop: the segments appended for the pair (current, next)
PairSegments(current_command, next_command, max_segment_length) ==
    LET distance_xy == DistanceXY(current_command, next_command)
        distances == SegmentDistances(distance_xy, max_segment_length)
        prev_angle_xy == Arctan2(next_command.y - current_command.y,
                                 next_command.x - current_command.x)
    IN  SubSegments(current_command, next_command, distances, 1,
                    current_command.x, current_command.y, prev_angle_xy)

\* commands_range = range(len(commands) - 2), as the 0-based command_index values
CommandsRangeMutantAllPairs(commands) == 0..(Len(commands) - 2)

CommandsRange(commands) == 0..(Len(commands) - 3)

\* the segments of loop pass command_index (0-based) over the commands list
PassSegments(commands, command_index, max_segment_length) ==
    PairSegments(commands[command_index + 1], commands[command_index + 2], max_segment_length)

\* the whole outer loop, in order of command_index
RECURSIVE LoopSegments(_, _, _)
LoopSegments(commands, command_index, max_segment_length) ==
    IF command_index \notin CommandsRange(commands) THEN <<>>
    ELSE PassSegments(commands, command_index, max_segment_length)
         \o LoopSegments(commands, command_index + 1, max_segment_length)

RECURSIVE LoopPairs(_, _, _)
LoopPairs(commands, command_index, max_segment_length) ==
    IF command_index \notin CommandsRange(commands) THEN <<>>
    ELSE [k \in 1..Len(PassSegments(commands, command_index, max_segment_length)) |-> command_index]
         \o LoopPairs(commands, command_index + 1, max_segment_length)

CommandsToSegments ==
    /\ segmented' = TRUE
    /\ segments' = LoopSegments(arg_commands, 0, arg_max_length)
    /\ segments_pair' = LoopPairs(arg_commands, 0, arg_max_length)
    /\ UNCHANGED <<arg_commands, arg_max_length, meshvars, pairvars, restvars>>

(***************************************************************************)
(* Segmenter: claims                                                       *)
(***************************************************************************)
\* a call of commands_to_segments has returned
Segmented == segmented

\* the segments that the loop pass of command_index appended
SegmentsOfPair(command_index) ==
    SelectSeq([k \in 1..Len(segments) |-> [seg |-> segments[k], pair |-> segments_pair[k]]],
              LAMBDA t : t.pair = command_index)

\* the move from (0,0) to (3,0) mm (15 u), 1 mm (5 u) cap
IsScenarioMove ==
    /\ Segmented
    /\ Len(arg_commands) = 2
    /\ <<arg_commands[1].x, arg_commands[1].y>> = <<0, 0>>
    /\ <<arg_commands[2].x, arg_commands[2].y>> = <<15, 0>>
    /\ arg_max_length = 5

\* C1: segmenting the 2-command move (0,0) -> (3,0) mm with a 1 mm cap and
\* positive extrusion on the second command yields exactly 3 segments, all
\* travel = false, distance_xy = [1,1,1] mm and angle_xy = 0.
C1_ScenarioThreeSegments ==
    (IsScenarioMove /\ arg_commands[2].e > 0) =>
        /\ Len(segments) = 3
        /\ \A k \in 1..Len(segments) :
              /\ segments[k].travel = FALSE
              /\ segments[k].distance_xy = 5
              /\ segments[k].angle_xy = <<1, 0>>

\* C2: every command pair (i, i+1) with planar distance d and cap L has
\* ceil(d/L) segments when d > 0 and exactly 1 when d = 0, and the distance_xy
\* of its segments sum to d.
C2_CountAndSumPerPair ==
    Segmented =>
        \A i \in 0..(Len(arg_commands) - 2) :
            LET d == DistanceXY(arg_commands[i + 1], arg_commands[i + 2])
                emitted == SegmentsOfPair(i)
            IN  /\ Len(emitted) = (IF d > 0 THEN CeilDiv(d, arg_max_length) ELSE 1)
                /\ SumSeq([k \in 1..Len(emitted) |-> emitted[k].seg.distance_xy]) = d

\* C3: the output is the in-order concatenation of the sub-segments of all
\* n-1 consecutive command pairs, the last pair included.
C3_EveryPairInOrder ==
    Segmented =>
        segments = Flatten([j \in 1..Max(Len(arg_commands) - 1, 0) |->
                               PairSegments(arg_commands[j], arg_commands[j + 1], arg_max_length)])

\* C4: the travel flag of every segment equals (e <= 0) of the next command
\* of the pair that produced it, so it is the same on all sub-segments of a pair.
C4_TravelPerPair ==
    \A k \in 1..Len(segments) :
        segments[k].travel = (arg_commands[segments_pair[k] + 2].e <= 0)

\* a pair with zero extrusion on its second command was split into several
\* segments, all of them travel
C4_Witness ==
    \E k \in 1..(Len(segments) - 1) :
        /\ segments_pair[k] = segments_pair[k + 1]
        /\ arg_commands[segments_pair[k] + 2].e = 0
        /\ segments[k].travel /\ segments[k + 1].travel

\* segments[k] is the first, the last segment that its loop pass appended
FirstOfPair(k) == k = 1 \/ segments_pair[k - 1] # segments_pair[k]

LastOfPair(k) == k = Len(segments) \/ segments_pair[k + 1] # segments_pair[k]

\* C23: the sub-segments of one command pair are contiguous (each starts at
\* the x_next, y_next of the one before it, the first at the current
\* command's x, y); the last has the next command's z and e as z_next and
\* e_next, every earlier one the current command's z and e.
C23_PairContiguous ==
    Segmented =>
        \A k \in 1..Len(segments) :
            LET current_command == arg_commands[segments_pair[k] + 1]
                next_command == arg_commands[segments_pair[k] + 2]
            IN  /\ IF FirstOfPair(k)
                   THEN segments[k].x = current_command.x /\ segments[k].y = current_command.y
                   ELSE segments[k].x = segments[k - 1].x_next /\ segments[k].y = segments[k - 1].y_next
                /\ IF LastOfPair(k)
                   THEN segments[k].z_next = next_command.z /\ segments[k].e_next = next_command.e
                   ELSE segments[k].z_next = current_command.z /\ segments[k].e_next = current_command.e

\* a pair whose commands differ in z and in e was split into several
\* segments along a diagonal
C23_Witness ==
    /\ Segmented
    /\ \E k \in 1..(Len(segments) - 1) :
          /\ segments_pair[k] = segments_pair[k + 1]
          /\ LastOfPair(k + 1)
          /\ segments[k].z_next # segments[k + 1].z_next
          /\ segments[k].e_next # segments[k + 1].e_next
          /\ segments[k + 1].x = segments[k].x_next /\ segments[k + 1].y = segments[k].y_next
          /\ segments[k].x # segments[k].x_next /\ segments[k].y # segments[k].y_next


(***************************************************************************)
(* Thermal grid: arrays and attributes                                     *)
(*                                                                         *)
(* An array is a function on 0..n-1 (a 3-D array a function of functions). *)
(* __init__ only annotates the scalar attributes and never assigns them:   *)
(* the field `assigned` holds the names of the scalar attributes that      *)
(* exist on the instance; reading any other raises AttributeError (its     *)
(* field then holds the placeholder NoAttr).                               *)
(***************************************************************************)
NoAttr == 0

NoException == "none"

\* no archive written yet; an archive a is held as <<a>>
NoFile == <<>>

\* no instance; an instance m is held as <<m>>
NoMesh == <<>>

NoUnit == <<>>

NoPath == <<>>

PositionAttrs == {"x", "y", "z", "x_index", "y_index", "z_index"}

BoundsAttrs == {"x_start", "y_start", "z_start", "x_end", "y_end", "z_end",
                "x_step", "y_step", "z_step"}

\* len(a)
Size(a) == Cardinality(DOMAIN a)

\* jnp.array([])
EmptyArray == [i \in {} |-> 0]

\* round(n / d) for d > 0: Python rounds halves to the even neighbour
Round(n, d) ==
    LET q == n \div d
        r == n % d
    IN  IF 2 * r < d THEN q
        ELSE IF 2 * r > d THEN q + 1
        ELSE IF q % 2 = 0 THEN q ELSE q + 1

\* number of elements of jnp.arange(start, end, step), step > 0
ArangeSizeMutantInclusive(start, end, step) == Max((end - start) \div step + 1, 0)

ArangeSize(start, end, step) == Max(CeilDiv(end - start, step), 0)

\* jnp.arange(start, end, step)
Arange(start, end, step) == [i \in 0..(ArangeSize(start, end, step) - 1) |-> start + i * step]

\* jnp.full((nx, ny, nz), fill_value)
Full(nx, ny, nz, fill_value) ==
    [i \in 0..(nx - 1) |-> [j \in 0..(ny - 1) |-> [k \in 0..(nz - 1) |-> fill_value]]]

\* a.shape for a 3-D array
Shape(a) ==
    IF Size(a) = 0 THEN <<0>>
    ELSE IF Size(a[0]) = 0 THEN <<Size(a), 0, 0>>
    ELSE <<Size(a), Size(a[0]), Size(a[0][0])>>

\* SolverMesh.__init__; grid_shape is grid.shape, held beside the cells because
\* jnp.array([]), of shape (0,), has the same cells as an array of shape (0, 0, 0)
NewMesh ==
    [x |-> NoAttr, y |-> NoAttr, z |-> NoAttr,
     x_index |-> NoAttr, y_index |-> NoAttr, z_index |-> NoAttr,
     x_start |-> NoAttr, y_start |-> NoAttr, z_start |-> NoAttr,
     x_end |-> NoAttr, y_end |-> NoAttr, z_end |-> NoAttr,
     x_step |-> NoAttr, y_step |-> NoAttr, z_step |-> NoAttr,
     x_range |-> EmptyArray, y_range |-> EmptyArray, z_range |-> EmptyArray,
     x_range_centered |-> EmptyArray, y_range_centered |-> EmptyArray,
     z_range_centered |-> EmptyArray,
     grid |-> EmptyArray, grid_shape |-> Shape(EmptyArray),
     assigned |-> {}]

(***************************************************************************)
(* Thermal grid: initialize_grid                                           *)
(***************************************************************************)
\* the mesh after initialize_grid(mesh_parameters, fill_value)
InitializedMesh(m, mp, fill_value) ==
    LET x_range == Arange(mp.x_start, mp.x_end, mp.x_step)
        y_range == Arange(mp.y_start, mp.y_end, mp.y_step)
        z_range == Arange(mp.z_start, mp.z_end, mp.z_step)
    IN  [m EXCEPT
            !.x_start = mp.x_start, !.x_end = mp.x_end, !.x_step = mp.x_step,
            !.y_start = mp.y_start, !.y_end = mp.y_end, !.y_step = mp.y_step,
            !.z_start = mp.z_start, !.z_end = mp.z_end, !.z_step = mp.z_step,
            !.x_range = x_range, !.y_range = y_range, !.z_range = z_range,
            !.x_range_centered = [i \in DOMAIN x_range |-> x_range[i] - x_range[Size(x_range) \div 2]],
            !.y_range_centered = [j \in DOMAIN y_range |-> y_range[j] - y_range[Size(y_range) \div 2]],
            !.z_range_centered = z_range,
            !.x = mp.x_initial, !.y = mp.y_initial, !.z = mp.z_initial,
            !.x_index = Round(mp.x_initial - mp.x_start, mp.x_step),
            !.y_index = Round(mp.y_initial - mp.y_start, mp.y_step),
            !.z_index = Round(mp.z_initial - mp.z_start, mp.z_step),
            !.grid = Full(Size(x_range), Size(y_range), Size(z_range), fill_value),
            !.grid_shape = <<Size(x_range), Size(y_range), Size(z_range)>>,
            !.assigned = PositionAttrs \cup BoundsAttrs]

\* the caller initializes the grid once, with the preheat temperature as fill value
InitializeGrid ==
    /\ mesh.assigned = {}
    /\ mesh' = InitializedMesh(mesh, mesh_parameters, grid_offset)
    /\ raised' = NoException
    /\ UNCHANGED <<mesh_parameters, grid_offset, calls, segvars, pairvars, restvars>>

(***************************************************************************)
(* Thermal grid: array primitives                                          *)
(***************************************************************************)
\* the 3-D array of shape (nx, ny, nz) whose cell (i, j, k) is F(i, j, k)
Array3(nx, ny, nz, F(_, _, _)) ==
    [i \in 0..(nx - 1) |-> [j \in 0..(ny - 1) |-> [k \in 0..(nz - 1) |-> F(i, j, k)]]]

\* sum of F(k) for k in lo..hi
SumOver(lo, hi, F(_)) == SumSeq([t \in 1..(hi - lo + 1) |-> F(lo + t - 1)])

\* a - c, a + b (cell-wise)
AddScalar(a, c) ==
    Array3(Shape(a)[1], Shape(a)[2], Shape(a)[3], LAMBDA i, j, k : a[i][j][k] + c)

AddArrays(a, b) ==
    Array3(Shape(a)[1], Shape(a)[2], Shape(a)[3], LAMBDA i, j, k : a[i][j][k] + b[i][j][k])

\* mode="reflect": the source index of position i (i < 0 or i >= n in the padding)
\* of an axis of n cells; the edge cell is not repeated
ReflectIndex(i, n) ==
    IF n = 1 THEN 0
    ELSE LET period == 2 * (n - 1)
             m == i % period
         IN  IF m < n THEN m ELSE period - m

\* jnp.pad(a, ((px, px), (py, py), (pz, pz)), mode="reflect")
PadReflect(a, px, py, pz) ==
    LET nx == Shape(a)[1]
        ny == Shape(a)[2]
        nz == Shape(a)[3]
    IN  Array3(nx + 2 * px, ny + 2 * py, nz + 2 * pz,
               LAMBDA i, j, k : a[ReflectIndex(i - px, nx)][ReflectIndex(j - py, ny)][ReflectIndex(k - pz, nz)])

\* g.at[dst].set(sign * g[src]) where dst and src are slabs of p cells along
\* axis (1 = x, 2 = y, 3 = z) that start at dst_lo and src_lo
AssignSlab(g, axis, dst_lo, src_lo, p, sign) ==
    Array3(Shape(g)[1], Shape(g)[2], Shape(g)[3],
           LAMBDA i, j, k :
               LET c == <<i, j, k>>[axis]
               IN  IF c >= dst_lo /\ c < dst_lo + p
                   THEN LET s == src_lo + (c - dst_lo)
                        IN  sign * (IF axis = 1 THEN g[s][j][k]
                                    ELSE IF axis = 2 THEN g[i][s][k]
                                    ELSE g[i][j][s])
                   ELSE g[i][j][k])

\* a[px:-px, py:-py, pz:-pz]
CropMutantKeepZ(a, px, py, pz) ==
    Array3(Shape(a)[1] - 2 * px, Shape(a)[2] - 2 * py, Shape(a)[3],
           LAMBDA i, j, k : a[i + px][j + py][k])

Crop(a, px, py, pz) ==
    Array3(Shape(a)[1] - 2 * px, Shape(a)[2] - 2 * py, Shape(a)[3] - 2 * pz,
           LAMBDA i, j, k : a[i + px][j + py][k + pz])

\* jnp.roll(theta, shift=(x_roll, y_roll, 0), axis=(0, 1, 2))
RollMutantClamp(theta, x_roll, y_roll) ==
    LET nx == Shape(theta)[1]
        ny == Shape(theta)[2]
    IN  Array3(nx, ny, Shape(theta)[3],
               LAMBDA i, j, k : theta[Max(0, Min(nx - 1, i - x_roll))][Max(0, Min(ny - 1, j - y_roll))][k])

Roll(theta, x_roll, y_roll) ==
    LET nx == Shape(theta)[1]
        ny == Shape(theta)[2]
    IN  Array3(nx, ny, Shape(theta)[3],
               LAMBDA i, j, k : theta[(i - x_roll) % nx][(j - y_roll) % ny][k])

(***************************************************************************)
(* Thermal grid: Gaussian blur (am/solver/gaussian.py)                     *)
(*                                                                         *)
(* A separable, normalised Gaussian kernel of standard deviation           *)
(* sigma = sn / sd cells, truncated at 4 sigma (at least one cell), with   *)
(* zeros outside the array (padding="SAME").  Weights are held in parts    *)
(* per 10000 and the weighted mean is rounded down.                        *)
(***************************************************************************)
\* 10000 * exp(-q / 2) for q = 0, 1, 2, ...
ExpHalfTable == <<10000, 6065, 3679, 2231, 1353, 821, 498, 302, 183, 111, 67, 41, 25, 15, 9, 6, 3, 2, 1>>

\* weight of the tap at offset k: 10000 * exp(-k^2 / (2 sigma^2))
GaussianWeight(k, sn, sd) ==
    IF sn = 0 THEN (IF k = 0 THEN ExpHalfTable[1] ELSE 0)
    ELSE LET q == (k * k * sd * sd) \div (sn * sn)
         IN  IF q + 1 > Len(ExpHalfTable) THEN 0 ELSE ExpHalfTable[q + 1]

GaussianRadius(sn, sd) == Max((4 * sn) \div sd, 1)

\* one pass of the kernel along axis
GaussianBlur1D(g, axis, sn, sd) ==
    LET r == GaussianRadius(sn, sd)
        weight == [t \in (-r)..r |-> GaussianWeight(t, sn, sd)]
        total == SumOver(-r, r, LAMBDA t : weight[t])
        n == Shape(g)[axis]
        At(i, j, k, t) ==
            LET c == <<i, j, k>>[axis] + t
            IN  IF c < 0 \/ c >= n THEN 0
                ELSE IF axis = 1 THEN g[c][j][k]
                ELSE IF axis = 2 THEN g[i][c][k]
                ELSE g[i][j][c]
    IN  Array3(Shape(g)[1], Shape(g)[2], Shape(g)[3],
               LAMBDA i, j, k :
                   SumOver(-r, r, LAMBDA t : weight[t] * At(i, j, k, t)) \div total)

\* gaussian_blur_3d(g, sigma = sn / sd, padding="SAME")
GaussianBlur3D(g, sn, sd) ==
    GaussianBlur1D(GaussianBlur1D(GaussianBlur1D(g, 1, sn, sd), 2, sn, sd), 3, sn, sd)

(***************************************************************************)
(* Thermal grid: diffuse                                                   *)
(***************************************************************************)
BoundaryConditions == {"temperature", "flux"}

\* the six face assignments of the "temperature" boundary condition, in order
TemperatureBoundaryMutantSixNegated(g, px, py, pz) ==
    LET nx == Shape(g)[1]
        ny == Shape(g)[2]
        nz == Shape(g)[3]
        g1 == AssignSlab(g, 1, nx - px, nx - px, px, -1)
        g2 == AssignSlab(g1, 1, 0, 0, px, -1)
        g3 == AssignSlab(g2, 2, ny - py, ny - py, py, -1)
        g4 == AssignSlab(g3, 2, 0, 0, py, -1)
        g5 == AssignSlab(g4, 3, 0, 0, pz, -1)
    IN  AssignSlab(g5, 3, nz - pz, nz - pz, pz, -1)

TemperatureBoundary(g, px, py, pz) ==
    LET nx == Shape(g)[1]
        ny == Shape(g)[2]
        nz == Shape(g)[3]
        g1 == AssignSlab(g, 1, nx - px, nx - px, px, -1)
        g2 == AssignSlab(g1, 1, 0, 0, px, -1)
        g3 == AssignSlab(g2, 2, ny - py, ny - py, py, -1)
        g4 == AssignSlab(g3, 2, 0, 0, py, -1)
        g5 == AssignSlab(g4, 3, 0, 0, pz, -1)
    IN  AssignSlab(g5, 3, nz - pz, nz - pz, pz, 1)

\* the six face assignments of the "flux" boundary condition, in order
FluxBoundary(g, px, py, pz) ==
    LET nx == Shape(g)[1]
        ny == Shape(g)[2]
        nz == Shape(g)[3]
        g1 == AssignSlab(g, 1, nx - px, nx - 2 * px, px, -1)
        g2 == AssignSlab(g1, 1, 0, px, px, -1)
        g3 == AssignSlab(g2, 2, ny - py, ny - 2 * py, py, -1)
        g4 == AssignSlab(g3, 2, 0, py, py, -1)
        g5 == AssignSlab(g4, 3, 0, nz - 2 * pz, pz, -1)
    IN  AssignSlab(g5, 3, nz - pz, pz, pz, 1)

\* grid_padded after the boundary condition
Boundary(g, px, py, pz, boundary_condition) ==
    IF boundary_condition = "temperature" THEN TemperatureBoundary(g, px, py, pz)
    ELSE IF boundary_condition = "flux" THEN FluxBoundary(g, px, py, pz)
    ELSE g

\* diffuse_sigma = (2 * D * dt) ** 0.5
DiffuseSigma(D, dt) == Isqrt(2 * D * dt)

\* pad = max(int(4 * diffuse_sigma / step), 1)
Pad(diffuse_sigma, step) == Max((4 * diffuse_sigma) \div step, 1)

\* the `dt <= 0` early return
DiffuseReturnsEarlyMutantStrict(dt) == dt < 0

DiffuseReturnsEarly(dt) == dt <= 0

\* the exception diffuse raises on m, or NoException
DiffuseRaises(m, dt) ==
    IF DiffuseReturnsEarly(dt) THEN NoException
    ELSE IF {"x_step", "y_step", "z_step"} \subseteq m.assigned THEN NoException
    ELSE "AttributeError"

\* grid_padded of diffuse, after the boundary condition
GridPadded(m, dt, D, offset, boundary_condition) ==
    LET diffuse_sigma == DiffuseSigma(D, dt)
        pad_x == Pad(diffuse_sigma, m.x_step)
        pad_y == Pad(diffuse_sigma, m.y_step)
        pad_z == Pad(diffuse_sigma, m.z_step)
        grid_normalized == AddScalar(m.grid, -offset)
    IN  Boundary(PadReflect(grid_normalized, pad_x, pad_y, pad_z),
                 pad_x, pad_y, pad_z, boundary_condition)

\* self.grid after diffuse(delta_time, diffusivity, grid_offset, boundary_condition)
DiffusedGrid(m, dt, D, offset, boundary_condition) ==
    LET diffuse_sigma == DiffuseSigma(D, dt)
        pad_x == Pad(diffuse_sigma, m.x_step)
        pad_y == Pad(diffuse_sigma, m.y_step)
        pad_z == Pad(diffuse_sigma, m.z_step)
        grid_padded == GridPadded(m, dt, D, offset, boundary_condition)
        \* sigma = mean(sigma_x, sigma_y, sigma_z) as the fraction sn / sd
        sn == diffuse_sigma * (m.y_step * m.z_step + m.x_step * m.z_step + m.x_step * m.y_step)
        sd == 3 * m.x_step * m.y_step * m.z_step
        blurred == GaussianBlur3D(grid_padded, sn, sd)
        grid_cropped == Crop(blurred, pad_x, pad_y, pad_z)
    IN  AddScalar(grid_cropped, offset)

\* the instance after diffuse
DiffusedMesh(m, dt, D, offset, boundary_condition) ==
    IF DiffuseReturnsEarly(dt) \/ DiffuseRaises(m, dt) # NoException THEN m
    ELSE LET grid == DiffusedGrid(m, dt, D, offset, boundary_condition)
         IN  [m EXCEPT !.grid = grid, !.grid_shape = Shape(grid)]

(***************************************************************************)
(* Thermal grid: update_xy and graft                                       *)
(***************************************************************************)
UpdateXYRaises(m, mode) ==
    IF mode # "absolute" THEN NoException
    ELSE IF {"x_start", "x_step", "y_start", "y_step"} \subseteq m.assigned THEN NoException
    ELSE "AttributeError"

\* the instance after update_xy(segment, mode)
UpdatedMeshMutantRelative(m, segment, mode) ==
    IF mode # "absolute" \/ UpdateXYRaises(m, mode) # NoException THEN m
    ELSE [m EXCEPT !.x = segment.x_next,
                   !.y = segment.y_next,
                   !.x_index = m.x_index + Round(segment.x_next - m.x, m.x_step),
                   !.y_index = m.y_index + Round(segment.y_next - m.y, m.y_step),
                   !.assigned = @ \cup {"x", "y", "x_index", "y_index"}]

UpdatedMesh(m, segment, mode) ==
    IF mode # "absolute" \/ UpdateXYRaises(m, mode) # NoException THEN m
    ELSE [m EXCEPT !.x = segment.x_next,
                   !.y = segment.y_next,
                   !.x_index = Round(segment.x_next - m.x_start, m.x_step),
                   !.y_index = Round(segment.y_next - m.y_start, m.y_step),
                   !.assigned = @ \cup {"x", "y", "x_index", "y_index"}]

GraftRaises(m) ==
    IF {"x_index", "y_index"} \subseteq m.assigned THEN NoException ELSE "AttributeError"

\* the local field graft adds to the grid
GraftRollMutantKeepOffset(m, theta, offset) ==
    Roll(theta, m.x_index - Size(m.x_range) \div 2, m.y_index - Size(m.y_range) \div 2)

GraftRoll(m, theta, offset) ==
    LET x_offset == Size(m.x_range) \div 2
        y_offset == Size(m.y_range) \div 2
        x_roll == -x_offset + m.x_index
        y_roll == -y_offset + m.y_index
    IN  AddScalar(Roll(theta, x_roll, y_roll), -offset)

\* the instance after graft(theta, grid_offset)
GraftedMesh(m, theta, offset) ==
    IF GraftRaises(m) # NoException THEN m
    ELSE LET grid == AddArrays(m.grid, GraftRoll(m, theta, offset))
         IN  [m EXCEPT !.grid = grid, !.grid_shape = Shape(grid)]


(***************************************************************************)
(* Specification of initialize_grid                                        *)
(***************************************************************************)
\* (start, end, step) of an axis, in u
AxisBoundsX == {<<0, 10, 1>>, <<0, 24, 8>>, <<-8, 16, 8>>, <<0, 20, 8>>, <<4, 5, 8>>}

AxisBoundsY == {<<0, 24, 8>>, <<0, 2, 1>>, <<-16, 0, 8>>}

AxisBoundsZ == {<<0, 12, 4>>, <<0, 15, 4>>, <<-8, 0, 8>>}

FillValues == {0, 300}

MeshParametersOf(bx, by, bz, bc) ==
    [x_start |-> bx[1], x_end |-> bx[2], x_step |-> bx[3],
     y_start |-> by[1], y_end |-> by[2], y_step |-> by[3],
     z_start |-> bz[1], z_end |-> bz[2], z_step |-> bz[3],
     x_initial |-> bx[1] + bx[3], y_initial |-> by[1] + by[3], z_initial |-> bz[1],
     boundary_condition |-> bc]

SegIdle ==
    /\ arg_commands = <<>>
    /\ arg_max_length = 5
    /\ segmented = FALSE
    /\ segments = <<>>
    /\ segments_pair = <<>>

PairIdle ==
    /\ file = NoFile
    /\ saved_path = NoPath
    /\ ref = NoMesh
    /\ twin = NoMesh
    /\ twin_raised = NoException
    /\ pair_raised = <<NoException, NoException>>
    /\ pair_calls = <<>>

IoIdle ==
    /\ segments_file = NoFile
    /\ saved_segments = <<>>
    /\ loaded = FALSE
    /\ load_raised = NoException

DiffIdle == last_grid_padded = EmptyArray

DriverIdle ==
    /\ layer_segments = <<>>
    /\ pc = "done"
    /\ run_out_path = FALSE
    /\ run_raised = NoException
    /\ run_calls = <<>>
    /\ snapshots = <<>>

ParseIdle ==
    /\ default_system = "cgs"
    /\ gcode_lines = <<>>
    /\ pending_files = <<>>
    /\ parsed = FALSE
    /\ self_commands = <<>>
    /\ commands_layer_change_indexes = <<>>
    /\ command_unit = NoUnit
    /\ parse_raised = NoException

MapIdle ==
    /\ process_map = [parameters |-> <<>>, points |-> <<>>]
    /\ num_proc = 1
    /\ heap = <<>>
    /\ args_list = <<>>
    /\ futures = <<>>
    /\ points = <<>>
    /\ returned = <<>>

SlicerIdle ==
    /\ total_sections = 0
    /\ has_progress_callback = FALSE
    /\ slicer_num_proc = 1
    /\ slicer_section_index = 0
    /\ slicer_futures = <<>>
    /\ completed_count = 0
    /\ progress_calls = <<>>
    /\ slicer_returned = TRUE

RestIdle == IoIdle /\ DiffIdle /\ DriverIdle /\ ParseIdle /\ MapIdle /\ SlicerIdle

MeshIdle ==
    /\ mesh_parameters = MeshParametersOf(<<0, 24, 8>>, <<0, 24, 8>>, <<0, 12, 4>>, "temperature")
    /\ grid_offset = 300
    /\ mesh = NewMesh
    /\ raised = NoException
    /\ calls = <<>>
    /\ PairIdle

InitGrid ==
    /\ mesh_parameters \in {MeshParametersOf(bx, by, bz, "temperature") :
                               bx \in AxisBoundsX, by \in AxisBoundsY, bz \in AxisBoundsZ}
    /\ grid_offset \in FillValues
    /\ mesh = NewMesh
    /\ raised = NoException
    /\ calls = <<>>
    /\ PairIdle
    /\ SegIdle
    /\ RestIdle

NextGrid == InitializeGrid

SpecGrid == InitGrid /\ [][NextGrid]_vars

(***************************************************************************)
(* initialize_grid: claims                                                 *)
(***************************************************************************)
Initialized == mesh.assigned # {}

\* range is start, start + step, ... and stops at the last value below end
IsHalfOpenRange(range, start, end, step) ==
    /\ DOMAIN range = 0..(Size(range) - 1)
    /\ \A i \in DOMAIN range : range[i] = start + i * step /\ range[i] < end
    /\ start + Size(range) * step >= end

\* C8: initialize_grid builds each axis vector as the half-open range
\* [start, end) with the given step (x in [0,1) with step 0.1, here [0,10)
\* with step 1, gives 10 x-cells), the grid has shape
\* (len(x_range), len(y_range), len(z_range)) and every cell equals fill_value.
C8_HalfOpenGrid ==
    Initialized =>
        /\ IsHalfOpenRange(mesh.x_range, mesh_parameters.x_start, mesh_parameters.x_end, mesh_parameters.x_step)
        /\ IsHalfOpenRange(mesh.y_range, mesh_parameters.y_start, mesh_parameters.y_end, mesh_parameters.y_step)
        /\ IsHalfOpenRange(mesh.z_range, mesh_parameters.z_start, mesh_parameters.z_end, mesh_parameters.z_step)
        /\ (<<mesh_parameters.x_start, mesh_parameters.x_end, mesh_parameters.x_step>> = <<0, 10, 1>>
               => Size(mesh.x_range) = 10)
        /\ Shape(mesh.grid) = <<Size(mesh.x_range), Size(mesh.y_range), Size(mesh.z_range)>>
        /\ \A i \in DOMAIN mesh.grid : \A j \in DOMAIN mesh.grid[i] : \A k \in DOMAIN mesh.grid[i][j] :
               mesh.grid[i][j][k] = grid_offset

\* the grid of x in [0,10) step 1 has been initialized, with 10 x-cells
C8_Witness ==
    /\ Initialized
    /\ <<mesh_parameters.x_start, mesh_parameters.x_end, mesh_parameters.x_step>> = <<0, 10, 1>>
    /\ Size(mesh.x_range) = 10
    /\ Shape(mesh.grid)[1] = 10
    /\ mesh.grid[9][0][0] = grid_offset


(***************************************************************************)
(* Thermal grid: save and load                                             *)
(***************************************************************************)
\* A path is held as the pieces of its file name, the last piece being the
\* ending of the name.  The test saves to test_mesh.npz, run_layer saves each
\* snapshot to <segment index>.pt.
TestMeshPath == <<"test_mesh", ".npz">>

SnapshotPath == <<"0", ".pt">>

\* the `path` arguments of save
MeshPaths == {TestMeshPath, SnapshotPath}

\* the arguments of np.savez_compressed read x_start ... z_step, which __init__
\* only annotates: on a mesh without them the call raises before it writes
SaveRaises(m) == IF BoundsAttrs \subseteq m.assigned THEN NoException ELSE "AttributeError"

\* the name of the file np.savez_compressed(path, ...) writes: ".npz" is
\* appended to a name that does not end with it
SavezName(path) == IF path[Len(path)] = ".npz" THEN path ELSE Append(path, ".npz")

\* np.load(path) opens the file of exactly that name
LoadRaises(files, path) ==
    IF \E i \in DOMAIN files : files[i].name = path THEN NoException ELSE "FileNotFoundError"

\* the named arrays np.savez_compressed writes
Archive(m) ==
    [x_range |-> m.x_range, y_range |-> m.y_range, z_range |-> m.z_range,
     x_start |-> m.x_start, y_start |-> m.y_start, z_start |-> m.z_start,
     x_end |-> m.x_end, y_end |-> m.y_end, z_end |-> m.z_end,
     x_step |-> m.x_step, y_step |-> m.y_step, z_step |-> m.z_step,
     x_range_centered |-> m.x_range_centered,
     y_range_centered |-> m.y_range_centered,
     z_range_centered |-> m.z_range_centered,
     grid |-> m.grid, grid_shape |-> m.grid_shape]

\* the instance load builds from the archive: cls() and the assignments of load
LoadedMesh(data) ==
    [NewMesh EXCEPT
        !.x_range = data.x_range, !.y_range = data.y_range, !.z_range = data.z_range,
        !.x_start = data.x_start, !.y_start = data.y_start, !.z_start = data.z_start,
        !.x_end = data.x_end, !.y_end = data.y_end, !.z_end = data.z_end,
        !.x_step = data.x_step, !.y_step = data.y_step, !.z_step = data.z_step,
        !.x_range_centered = data.x_range_centered,
        !.y_range_centered = data.y_range_centered,
        !.z_range_centered = data.z_range_centered,
        !.grid = data.grid, !.grid_shape = data.grid_shape,
        !.assigned = BoundsAttrs]

(***************************************************************************)
(* Heat source: real arithmetic                                            *)
(*                                                                         *)
(* The heat source computes with floats.  The model holds such a value r   *)
(* as the integer floor(r * Scale), and every operation below returns the  *)
(* floor of the exact result at that resolution, on integers of 32 bits.   *)
(* An angle is the direction <<a, b>> of its ray, as in the segmenter.     *)
(***************************************************************************)
\* the resolution of a held float
Scale == 10 ^ 6

\* a * b
Mul(a, b) ==
    LET ah == a \div 1000
        al == a % 1000
        bh == b \div 1000
        bl == b % 1000
    IN  ah * bh + (ah * bl + al * bh + (al * bl) \div 1000) \div 1000

\* the first k decimal digits of r / b, for 0 <= r < b
RECURSIVE Digits(_, _, _)
Digits(r, b, k) ==
    IF k = 0 THEN 0
    ELSE ((r * 10) \div b) * 10 ^ (k - 1) + Digits((r * 10) % b, b, k - 1)

\* a / b, for b > 0
Div(a, b) == (a \div b) * Scale + Digits(a % b, b, 6)

\* Newton's iteration for the integer square root of n, from the estimate x
RECURSIVE Newton(_, _)
Newton(n, x) ==
    LET y == (x + n \div x) \div 2
    IN  IF y >= x THEN x ELSE Newton(n, y)

\* a ** 0.5, np.sqrt(a)
Sqrt(a) == IF a = 0 THEN 0 ELSE Newton(a * 100, a * 100) * 100

\* np.pi
Pi == 3141593

\* np.sqrt(2 * np.pi)
SqrtTwoPi == 2506628

\* pi ** (3 / 2)
PiToThreeHalves == 5568328

\* np.exp(-k) for k = 0, 1, 2, ...; below 1 / (2 * Scale) from k = 15 on
ExpTable ==
    <<1000000, 367879, 135335, 49787, 18316, 6738, 2479, 912, 335, 123, 45, 17, 6, 2, 1>>

\* the terms n, n + 1, ..., 12 of the series of np.exp(g), for 0 <= g <= 1;
\* term is g^(n-1) / (n-1)!
RECURSIVE ExpSeries(_, _, _)
ExpSeries(g, term, n) ==
    IF n > 12 THEN 0 ELSE term + ExpSeries(g, Mul(term, g) \div n, n + 1)

\* np.exp(-x) for x >= 0, as exp(-(k + 1)) * exp(1 - f) with x = k + f, 0 <= f < 1
ExpNeg(x) ==
    LET k == x \div Scale
        f == x % Scale
    IN  IF k + 2 > Len(ExpTable) THEN 0
        ELSE Mul(ExpTable[k + 2], ExpSeries(Scale - f, Scale, 1))

(***************************************************************************)
(* Heat source: EagarTsai.forward                                          *)
(*                                                                         *)
(* solve is written for torch tensors: it calls X.cpu(), Y.cpu() and       *)
(* Z.cpu().  SolverMesh builds its ranges with jax (jnp.array in __init__  *)
(* and load, jnp.arange in initialize_grid), and a jax array has no method *)
(* cpu.  On every mesh a SolverMesh can be, the first call of solve        *)
(* therefore raises AttributeError, and forward, which calls it whenever   *)
(* dt > 0, ends there: the assignment of the grid is not reached.  Solve   *)
(* and FixedQuad give the values the lines compute on torch tensors.       *)
(*                                                                         *)
(* The model's EagarTsai is constructed with num = 1, so that fixed_quad   *)
(* takes one node.                                                         *)
(*                                                                         *)
(* Lengths are in u and times in time units; the magnitudes below are the  *)
(* numbers forward reads from the configs after its unit conversions.  The *)
(* temperature rise is held in whole kelvin, rounded down, like the grid.  *)
(***************************************************************************)
\* the magnitudes of build_config and material_config (beam_diameter 4 gives
\* sigma = 1), and the keyword argument num of EagarTsai, <<>> when not given
Parameters ==
    [beam_power |-> 70000, scan_velocity |-> 8, beam_diameter |-> 4,
     absorptivity |-> 1, thermal_diffusivity |-> 2, density |-> 2,
     specific_heat_capacity |-> 1, num |-> <<1>>]

\* FLOOR = 10**-7, the lower limit of the quadrature
FLOOR == Scale \div 10 ^ 7

\* self.beam_diameter = build_config.beam_diameter.to("meter") / 4, read as sigma
Sigma(beam_diameter) == beam_diameter \div 4

\* c = alpha * p / (2 * pi * sigma**2 * rho * c_p * pi ** (3 / 2))
Coefficient(alpha, p, sigma, rho, c_p) ==
    LET denominator == Mul(2 * Pi * sigma * sigma * rho * c_p, PiToThreeHalves)
        numerator == alpha * p * 1000
    IN  (numerator \div denominator) * 10 ^ 9 + Digits(numerator % denominator, denominator, 9)

\* dt = distance_xy / v
DwellTime(distance_xy, v) == (distance_xy * Scale) \div v

\* 2^e modulo m
RECURSIVE PowerOfTwoMod(_, _)
PowerOfTwoMod(e, m) == IF e = 0 THEN 1 % m ELSE (2 * PowerOfTwoMod(e - 1, m)) % m

\* the least t' >= t with 1024 k < 1250 * 2^t': the double nearest k / 10^4 is
\* a whole multiple of 2^(t' - 66)
RECURSIVE BinaryExponent(_, _)
BinaryExponent(k, t) == IF 2 ^ t > (512 * k) \div 625 THEN t ELSE BinaryExponent(k, t + 1)

\* dt // 1e-4 for dt > 0, a floor division of doubles; dt stands for the double
\* nearest dt / Scale.  The double 1e-4 is (2^62 + 221) / (625 * 2^66), a
\* little above 1 / 10^4.  A dt that is no whole multiple k of 1 / 10^4 gives
\* the floor of the exact quotient.  A whole multiple gives k when the double
\* of k / 10^4, which is (k * 2^(62 - t) + r) / (625 * 2^(66 - t)) with r the
\* rounding to the nearest multiple of 625, is at least k times the double
\* 1e-4, and k - 1 otherwise: 0.0002 // 1e-4 is 2 and 1 // 1e-4 is 9999.
\* The products stay within 32 bits for dt below 400 * Scale.
FloorDivTenThousandth(dt) ==
    LET k == dt \div 100
        t == BinaryExponent(k, 0)
        m == ((k % 625) * PowerOfTwoMod(62 - t, 625)) % 625
        r == IF m <= 312 THEN 0 - m ELSE 625 - m
    IN  IF dt % 100 # 0 THEN k
        ELSE IF r * 2 ^ t >= 221 * k THEN k ELSE k - 1

\* num = self.num; if num is None: num = max(1, int(dt // 1e-4))
QuadratureNodes(num, dt) ==
    IF num # <<>> THEN num[1]
    ELSE IF dt <= 0 THEN 1
    ELSE Max(1, FloorDivTenThousandth(dt))

\* the library of the arrays a SolverMesh holds in x/y/z_range_centered
RangeLibrary == "jax"

\* whether an array of the library has the method cpu (torch.Tensor.cpu)
HasCpu(library) == library = "torch"

\* the exception solve raises at `Y.cpu()`, or NoException
SolveRaises(library) == IF HasCpu(library) THEN NoException ELSE "AttributeError"

\* solve(tau, phi, D, sigma, v, c, X, Y, Z) at one cell
Solve(tau, phi, D, sigma, v, c, X, Y, Z) ==
    LET x_travel == -TimesCos(v * tau, phi)
        y_travel == -TimesSin(v * tau, phi)
        lmbda == Sqrt(4 * D * tau)
        gamma == Sqrt(2 * sigma * sigma * Scale + Mul(lmbda, lmbda))
        gamma_squared == Mul(gamma, gamma)
        start == Div(Scale, Mul(4 * D * tau, lmbda))
        termy == Div(sigma * Mul(lmbda, SqrtTwoPi), gamma_squared)
        y_offset == Y * Scale - y_travel
        yexp1 == ExpNeg(Div(Mul(y_offset, y_offset), gamma_squared))
        yintegral == Mul(termy, yexp1)
        termx == termy
        x_offset == X * Scale - x_travel
        xexp1 == ExpNeg(Div(Mul(x_offset, x_offset), gamma_squared))
        xintegral == Mul(termx, xexp1)
        zintegral == 2 * ExpNeg(Div(Z * Z * Scale, 4 * D * tau))
    IN  Mul(Mul(Mul(Mul(c, start), xintegral), yintegral), zintegral)

\* integrate.fixed_quad(self.solve, a, b, args, n) at one cell, for n = 1:
\* the Gauss-Legendre rule with the node 0 and the weight 2 on [-1, 1]
FixedQuad(a, b, phi, D, sigma, v, c, X, Y, Z, n) ==
    CASE n = 1 ->
        LET y == (b - a) \div 2 + a
        IN  Mul((b - a) \div 2, 2 * Solve(y, phi, D, sigma, v, c, X, Y, Z))

\* the exception forward raises, or NoException: fixed_quad calls solve when dt > 0
ForwardRaises(segment) ==
    IF DwellTime(segment.distance_xy, Parameters.scan_velocity) > 0
    THEN SolveRaises(RangeLibrary) ELSE NoException

\* what forward returns: `return solver_mesh`, unless it raises
ForwardReturns(segment) ==
    IF ForwardRaises(segment) = NoException THEN "solver_mesh" ELSE "nothing"

\* the instance after forward(solver_mesh, segment)
ForwardedMesh(m, segment, t_0) ==
    LET alpha == Parameters.absorptivity
        c_p == Parameters.specific_heat_capacity
        D == Parameters.thermal_diffusivity
        rho == Parameters.density
        sigma == Sigma(Parameters.beam_diameter)
        p == Parameters.beam_power
        v == Parameters.scan_velocity
        c == Coefficient(alpha, p, sigma, rho, c_p)
        dt == DwellTime(segment.distance_xy, v)
        \* `if segment.travel: p = 0.0`; c is computed before it and p is not read again
        p_after == IF segment.travel THEN 0 ELSE p
        nx == Size(m.x_range_centered)
        ny == Size(m.y_range_centered)
        nz == Size(m.z_range_centered)
        theta_shape == <<nx, ny, nz>>
        theta == Full(nx, ny, nz, t_0)
        num == QuadratureNodes(Parameters.num, dt)
        result == Array3(nx, ny, nz,
                         LAMBDA i, j, k :
                             FixedQuad(FLOOR, dt, segment.angle_xy, D, sigma, v, c,
                                       m.x_range_centered[i], m.y_range_centered[j],
                                       m.z_range_centered[k], num) \div Scale)
    IN  IF dt > 0 /\ ForwardRaises(segment) = NoException
        THEN [m EXCEPT !.grid = AddArrays(theta, result), !.grid_shape = theta_shape]
        ELSE m

(***************************************************************************)
(* Inputs of the solver calls                                              *)
(***************************************************************************)
MaxSteps == 3

\* delta_time values: no dwell, and a dwell of diffusion length 2 u, which
\* pads 1 cell along an axis of step 8 u and 2 cells along an axis of step 4 u
DwellTimes == {0, 1}

\* segments handed to update_xy and forward; distance_xy / scan_velocity is
\* a dwell of 1/2, 2 and 0
SolverSegments ==
    {[x_next |-> 8, y_next |-> 8, distance_xy |-> 4, angle_xy |-> <<1, 0>>, travel |-> FALSE],
     [x_next |-> 16, y_next |-> 12, distance_xy |-> 16, angle_xy |-> <<0, 1>>, travel |-> TRUE],
     [x_next |-> 0, y_next |-> 4, distance_xy |-> 0, angle_xy |-> <<1, 0>>, travel |-> TRUE]}

\* local fields handed to graft, of the shape of the grid of m
ThetaNames == {"zeros", "ambient", "hotspot"}

\* with a field that is hot in a corner cell of the top layer, away from the heat source
LocalFieldNames == ThetaNames \cup {"corner"}

Theta(name, m, offset) ==
    LET nx == Size(m.x_range)
        ny == Size(m.y_range)
        nz == Size(m.z_range)
    IN  IF name = "zeros" THEN Full(nx, ny, nz, 0)
        ELSE IF name = "ambient" THEN Full(nx, ny, nz, offset)
        ELSE IF name = "corner"
        THEN Array3(nx, ny, nz,
                    LAMBDA i, j, k : IF i = 0 /\ j = 0 /\ k = nz - 1
                                     THEN offset + 100 ELSE offset)
        ELSE Array3(nx, ny, nz,
                    LAMBDA i, j, k : IF i = nx \div 2 /\ j = ny \div 2 /\ k = 0
                                     THEN offset + 100 ELSE offset)

(***************************************************************************)
(* Calls on the SolverMesh instance                                        *)
(***************************************************************************)
Diffuse(dt) ==
    /\ Len(calls) < MaxSteps
    /\ mesh' = DiffusedMesh(mesh, dt, Parameters.thermal_diffusivity, grid_offset,
                            mesh_parameters.boundary_condition)
    /\ raised' = DiffuseRaises(mesh, dt)
    /\ calls' = Append(calls, [op |-> "diffuse", dt |-> dt, theta |-> "", travel |-> FALSE])
    /\ last_grid_padded' =
          IF DiffuseReturnsEarly(dt) \/ DiffuseRaises(mesh, dt) # NoException THEN last_grid_padded
          ELSE GridPadded(mesh, dt, Parameters.thermal_diffusivity, grid_offset,
                          mesh_parameters.boundary_condition)
    /\ UNCHANGED <<mesh_parameters, grid_offset, segvars, pairvars,
                   iovars, drivervars, parsevars, mapvars, slicervars>>

UpdateXY(segment) ==
    /\ Len(calls) < MaxSteps
    /\ mesh' = UpdatedMesh(mesh, segment, "absolute")
    /\ raised' = UpdateXYRaises(mesh, "absolute")
    /\ calls' = Append(calls, [op |-> "update_xy", dt |-> 0, theta |-> "", travel |-> segment.travel,
                               x_next |-> segment.x_next, y_next |-> segment.y_next])
    /\ UNCHANGED <<mesh_parameters, grid_offset, segvars, pairvars, restvars>>

Graft(name) ==
    /\ Len(calls) < MaxSteps
    /\ mesh' = GraftedMesh(mesh, Theta(name, mesh, grid_offset), grid_offset)
    /\ raised' = GraftRaises(mesh)
    /\ calls' = Append(calls, [op |-> "graft", dt |-> 0, theta |-> name, travel |-> FALSE])
    /\ UNCHANGED <<mesh_parameters, grid_offset, segvars, pairvars, restvars>>

Forward(segment) ==
    /\ Len(calls) < MaxSteps
    /\ mesh' = ForwardedMesh(mesh, segment, grid_offset)
    /\ raised' = ForwardRaises(segment)
    /\ calls' = Append(calls, [op |-> "forward",
                               dt |-> DwellTime(segment.distance_xy, Parameters.scan_velocity),
                               theta |-> "", travel |-> segment.travel,
                               returns |-> ForwardReturns(segment)])
    /\ UNCHANGED <<mesh_parameters, grid_offset, segvars, pairvars, restvars>>

\* save(path), until one call has written its file: the file gets the name
\* np.savez_compressed makes of path, and save returns path itself
Save(path) ==
    /\ file = NoFile
    /\ raised' = SaveRaises(mesh)
    /\ IF SaveRaises(mesh) = NoException
       THEN /\ file' = <<[name |-> SavezName(path), data |-> Archive(mesh)]>>
            /\ saved_path' = <<path>>
            /\ ref' = <<mesh>>
       ELSE UNCHANGED <<file, saved_path, ref>>
    /\ UNCHANGED <<mesh_parameters, grid_offset, mesh, calls, twin, twin_raised,
                   pair_raised, pair_calls, segvars, restvars>>

\* load(path) of the path save returned, once: np.load raises when no file
\* has that name, and no instance is built
Load ==
    /\ saved_path # NoPath
    /\ twin = NoMesh
    /\ twin_raised = NoException
    /\ twin_raised' = LoadRaises(file, saved_path[1])
    /\ twin' = IF LoadRaises(file, saved_path[1]) = NoException
               THEN <<LoadedMesh(file[1].data)>>
               ELSE NoMesh
    /\ pair_raised' = <<NoException, NoException>>
    /\ pair_calls' = <<>>
    /\ UNCHANGED <<file, saved_path, ref, meshvars, segvars, restvars>>

\* the same diffuse call on the saved mesh and on the loaded one
PairDiffuse(dt) ==
    /\ twin # NoMesh
    /\ Len(calls) + Len(pair_calls) < MaxSteps
    /\ LET D == Parameters.thermal_diffusivity
           bc == mesh_parameters.boundary_condition
       IN  /\ ref' = <<DiffusedMesh(ref[1], dt, D, grid_offset, bc)>>
           /\ twin' = <<DiffusedMesh(twin[1], dt, D, grid_offset, bc)>>
    /\ pair_raised' = <<DiffuseRaises(ref[1], dt), DiffuseRaises(twin[1], dt)>>
    /\ pair_calls' = Append(pair_calls, [op |-> "diffuse", dt |-> dt, theta |-> ""])
    /\ UNCHANGED <<file, saved_path, twin_raised, meshvars, segvars, restvars>>

\* the same graft call on the saved mesh and on the loaded one
PairGraft(name) ==
    /\ twin # NoMesh
    /\ Len(calls) + Len(pair_calls) < MaxSteps
    /\ ref' = <<GraftedMesh(ref[1], Theta(name, ref[1], grid_offset), grid_offset)>>
    /\ twin' = <<GraftedMesh(twin[1], Theta(name, twin[1], grid_offset), grid_offset)>>
    /\ pair_raised' = <<GraftRaises(ref[1]), GraftRaises(twin[1])>>
    /\ pair_calls' = Append(pair_calls, [op |-> "graft", dt |-> 0, theta |-> name])
    /\ UNCHANGED <<file, saved_path, twin_raised, meshvars, segvars, restvars>>

(***************************************************************************)
(* Specifications of the solver                                            *)
(***************************************************************************)
InitMesh ==
    /\ mesh_parameters \in {MeshParametersOf(<<0, 24, 8>>, <<0, 24, 8>>, <<0, 12, 4>>, bc) :
                               bc \in BoundaryConditions}
    /\ grid_offset \in FillValues
    /\ mesh = NewMesh
    /\ raised = NoException
    /\ calls = <<>>
    /\ PairIdle
    /\ SegIdle
    /\ RestIdle

NextMesh ==
    \/ InitializeGrid
    \/ \E dt \in DwellTimes : Diffuse(dt)
    \/ \E segment \in SolverSegments : UpdateXY(segment)
    \/ \E name \in ThetaNames : Graft(name)
    \/ \E segment \in SolverSegments : Forward(segment)

SpecMesh == InitMesh /\ [][NextMesh]_vars

\* calls that bring the mesh to the state that is saved
BuildUpdateXY(segment) == file = NoFile /\ UpdateXY(segment)

BuildGraft(name) == file = NoFile /\ Graft(name)

\* one run: the grid is built, saved, loaded; the paired calls follow
NextPersist ==
    \/ InitializeGrid
    \/ \E segment \in SolverSegments : BuildUpdateXY(segment)
    \/ \E name \in ThetaNames : BuildGraft(name)
    \/ \E path \in MeshPaths : Save(path)
    \/ Load
    \/ \E dt \in DwellTimes : PairDiffuse(dt)
    \/ \E name \in ThetaNames : PairGraft(name)

SpecPersist == InitMesh /\ [][NextPersist]_vars


(***************************************************************************)
(* Solver: claims                                                          *)
(***************************************************************************)
\* the last call made on mesh
LastCall == calls[Len(calls)]

\* this step is a call of op on mesh
IsCall(op) == Len(calls') = Len(calls) + 1 /\ calls'[Len(calls')].op = op

\* every cell of the 3-D array a equals v
Uniform(a, v) ==
    \A i \in DOMAIN a : \A j \in DOMAIN a[i] : \A k \in DOMAIN a[i][j] : a[i][j][k] = v

\* C5: diffuse called with dt = 0 raises nothing and leaves the grid (and the
\* rest of the mesh) as it was, whatever the other arguments and the grid are.
C5_DiffuseZeroIsNoOp ==
    [][(IsCall("diffuse") /\ calls'[Len(calls')].dt = 0)
          => (mesh' = mesh /\ raised' = NoException)]_vars

\* diffuse(dt = 0) has returned on an initialized grid that a hot spot made non-uniform
C5_Witness ==
    /\ Len(calls) >= 2
    /\ LastCall.op = "diffuse" /\ LastCall.dt = 0
    /\ calls[Len(calls) - 1].op = "graft" /\ calls[Len(calls) - 1].theta = "hotspot"
    /\ Initialized
    /\ raised = NoException
    /\ ~Uniform(mesh.grid, grid_offset)

\* the last call was a diffuse that returned normally on an initialized grid
AfterDiffuse ==
    /\ Len(calls) >= 1
    /\ LastCall.op = "diffuse"
    /\ Initialized
    /\ raised = NoException

\* C6 as claimed: diffuse followed by graft with an all-zero local field leaves
\* the grid equal to the result of diffuse alone, for any grid offset.
C6_DiffuseThenZeroGraft ==
    [][(AfterDiffuse /\ IsCall("graft") /\ calls'[Len(calls')].theta = "zeros")
          => mesh'.grid = mesh.grid]_vars

\* C6 as amended: diffuse followed by graft with a local field equal to
\* grid_offset in every cell (no temperature rise; all-zero only when
\* grid_offset is 0) leaves the grid equal to the result of diffuse alone.
C6_DiffuseThenAmbientGraft ==
    [][(AfterDiffuse /\ IsCall("graft")
          /\ Uniform(Theta(calls'[Len(calls')].theta, mesh, grid_offset), grid_offset))
          => mesh'.grid = mesh.grid]_vars

\* a dwell diffused a heated grid, then graft merged a field equal to a non-zero grid_offset
C6_Witness ==
    /\ Len(calls) >= 3
    /\ calls[Len(calls) - 2].op = "graft" /\ calls[Len(calls) - 2].theta = "hotspot"
    /\ calls[Len(calls) - 1].op = "diffuse" /\ calls[Len(calls) - 1].dt > 0
    /\ LastCall.op = "graft" /\ LastCall.theta = "ambient"
    /\ grid_offset # 0
    /\ Initialized
    /\ raised = NoException
    /\ ~Uniform(mesh.grid, grid_offset)

\* C7: the heat-source model evaluated on a travel segment returns the preheat
\* temperature (zero rise) at every cell, whatever the dwell time: the call
\* returns, and what it leaves as its result is the preheat temperature everywhere.
C7_TravelForwardNoRise ==
    (Len(calls) >= 1 /\ LastCall.op = "forward" /\ LastCall.travel)
        => /\ raised = NoException
           /\ Uniform(mesh.grid, grid_offset)

\* load has been called on the path save returned, and no paired call yet
LoadCalled == (twin # NoMesh \/ twin_raised # NoException) /\ pair_calls = <<>>

\* the instance load returned and the mesh that was saved, before any paired call
RoundTripped == twin # NoMesh /\ pair_calls = <<>>

\* the instance load returned has the grid, the axis vectors and the
\* start/end/step scalars of the mesh that was saved
SameAsSaved(loaded_mesh, saved_mesh) ==
    /\ loaded_mesh.grid = saved_mesh.grid
    /\ loaded_mesh.x_range = saved_mesh.x_range
    /\ loaded_mesh.y_range = saved_mesh.y_range
    /\ loaded_mesh.z_range = saved_mesh.z_range
    /\ loaded_mesh.x_range_centered = saved_mesh.x_range_centered
    /\ loaded_mesh.y_range_centered = saved_mesh.y_range_centered
    /\ loaded_mesh.z_range_centered = saved_mesh.z_range_centered
    /\ \A a \in BoundsAttrs : a \in loaded_mesh.assigned
    /\ <<loaded_mesh.x_start, loaded_mesh.x_end, loaded_mesh.x_step>>
            = <<saved_mesh.x_start, saved_mesh.x_end, saved_mesh.x_step>>
    /\ <<loaded_mesh.y_start, loaded_mesh.y_end, loaded_mesh.y_step>>
            = <<saved_mesh.y_start, saved_mesh.y_end, saved_mesh.y_step>>
    /\ <<loaded_mesh.z_start, loaded_mesh.z_end, loaded_mesh.z_step>>
            = <<saved_mesh.z_start, saved_mesh.z_end, saved_mesh.z_step>>

\* C9: the instance load returned behaves, under the diffuse and graft calls
\* that follow, like the mesh that was saved: each call succeeds on it when it
\* succeeds on the saved mesh, and the two grids stay equal.
C9_LoadedBehavesLikeSaved ==
    twin # NoMesh =>
        /\ pair_raised[2] = pair_raised[1]
        /\ twin[1].grid = ref[1].grid

\* C10: save followed by load yields a mesh with identical grid values,
\* identical x/y/z axis vectors (absolute and centered) and identical
\* start/end/step scalars: load of the path save returned gives an instance,
\* and the instance has what was saved.
C10_SaveLoadRoundTrip ==
    LoadCalled =>
        /\ twin_raised = NoException
        /\ twin # NoMesh
        /\ SameAsSaved(twin[1], ref[1])

\* a grid that a hot spot made non-uniform was saved to the snapshot path:
\* the file is named 0.pt.npz, save returned 0.pt, and load of it raised
C10_Witness ==
    /\ LoadCalled
    /\ saved_path = <<SnapshotPath>>
    /\ file[1].name = <<"0", ".pt", ".npz">>
    /\ file[1].data.grid = ref[1].grid
    /\ ~Uniform(ref[1].grid, grid_offset)
    /\ twin_raised = "FileNotFoundError"
    /\ twin = NoMesh

\* where the path given to save ends with .npz, the file has that name and
\* load returns an instance with what was saved
RoundTripOfNpzPath ==
    (LoadCalled /\ saved_path = <<TestMeshPath>>) =>
        /\ file[1].name = TestMeshPath
        /\ RoundTripped
        /\ SameAsSaved(twin[1], ref[1])

\* a grid that a hot spot made non-uniform was saved to test_mesh.npz and loaded
RoundTripOfNpzPathReached ==
    /\ RoundTripped
    /\ saved_path = <<TestMeshPath>>
    /\ ~Uniform(ref[1].grid, grid_offset)
    /\ twin[1].grid = ref[1].grid
    /\ twin[1].x_end = 24


(***************************************************************************)
(* Solver: calls before initialize_grid, negative dwell times, purity of   *)
(* the heat source                                                         *)
(***************************************************************************)
\* C12: diffuse, graft and update_xy called before initialize_grid fail with
\* an error in every case; none returns silently.
C12_UninitializedCallsFail ==
    [][(~Initialized /\ (IsCall("diffuse") \/ IsCall("graft") \/ IsCall("update_xy")))
          => raised' # NoException]_vars

\* delta_time values of either sign
SignedDwellTimes == {-1, 0, 1}

\* segments of either sign of distance_xy (dt = distance_xy / scan_velocity = -1, 0, 1)
SignedSegments ==
    {[x_next |-> 8, y_next |-> 8, distance_xy |-> 8, angle_xy |-> <<1, 0>>, travel |-> FALSE],
     [x_next |-> 0, y_next |-> 8, distance_xy |-> -8, angle_xy |-> <<1, 0>>, travel |-> FALSE],
     [x_next |-> 8, y_next |-> 8, distance_xy |-> 0, angle_xy |-> <<1, 0>>, travel |-> TRUE]}

NextDwell ==
    \/ InitializeGrid
    \/ \E dt \in SignedDwellTimes : Diffuse(dt)
    \/ \E segment \in SignedSegments : Forward(segment)

SpecDwell == InitMesh /\ [][NextDwell]_vars

\* C13: a negative dwell time (a negative dt given to diffuse, a negative
\* segment distance given to the heat source) raises an error; it is never
\* treated as a no-op.
C13_NegativeDwellRaises ==
    [][((IsCall("diffuse") \/ IsCall("forward")) /\ calls'[Len(calls')].dt < 0)
          => raised' # NoException]_vars

\* C15: evaluating the heat source on a segment is a pure function: it
\* returns a local field and does not modify the mesh, whose grid, axis
\* vectors and tool position are as before the call.
C15_ForwardIsPure ==
    [][IsCall("forward")
          => /\ calls'[Len(calls')].returns = "local_field"
             /\ mesh' = mesh]_vars

(***************************************************************************)
(* diffuse: the boundary conditions                                        *)
(***************************************************************************)
\* the last step was a diffuse call that built grid_padded
HasPadded == IsCall("diffuse") /\ ~DiffuseReturnsEarly(calls'[Len(calls')].dt)
                 /\ raised' = NoException

\* the pads of the diffuse call of this step
StepPad(step) ==
    Pad(DiffuseSigma(Parameters.thermal_diffusivity, calls'[Len(calls')].dt), step)

\* the reflect-padded temperature rise the boundary condition starts from
StepReflected ==
    PadReflect(AddScalar(mesh.grid, -grid_offset),
               StepPad(mesh.x_step), StepPad(mesh.y_step), StepPad(mesh.z_step))

\* coordinate c of an axis of n padded cells lies in the low face, the high
\* face, or the interior
InLow(c, p) == c < p

InHigh(c, n, p) == c >= n - p

InInterior(c, n, p) == c >= p /\ c < n - p

\* g holds at (i, j, k), a cell of one face only, an un-negated copy of the
\* interior next to that face: its mirror image (which reflected holds at the
\* same place) or the slab of the same width next to the face
IsAdjacentCopy(g, reflected, i, j, k, px, py, pz) ==
    LET nx == Shape(g)[1]
        ny == Shape(g)[2]
        nz == Shape(g)[3]
        slab == IF InLow(i, px) THEN reflected[i + px][j][k]
                ELSE IF InHigh(i, nx, px) THEN reflected[i - px][j][k]
                ELSE IF InLow(j, py) THEN reflected[i][j + py][k]
                ELSE IF InHigh(j, ny, py) THEN reflected[i][j - py][k]
                ELSE IF InLow(k, pz) THEN reflected[i][j][k + pz]
                ELSE reflected[i][j][k - pz]
    IN  g[i][j][k] \in {reflected[i][j][k], slab}

\* (i, j, k) lies in exactly one of the six faces
InOneFace(g, i, j, k, px, py, pz) ==
    LET inner == <<InInterior(i, Shape(g)[1], px), InInterior(j, Shape(g)[2], py),
                   InInterior(k, Shape(g)[3], pz)>>
    IN  Cardinality({a \in 1..3 : ~inner[a]}) = 1

\* C19: with boundary condition "flux", diffuse overwrites all six padded
\* faces with un-negated mirror copies of the interior next to the same face.
C19_FluxFacesMirror ==
    [][(HasPadded /\ mesh_parameters.boundary_condition = "flux") =>
          LET g == last_grid_padded'
              px == StepPad(mesh.x_step)
              py == StepPad(mesh.y_step)
              pz == StepPad(mesh.z_step)
          IN  \A i \in DOMAIN g : \A j \in DOMAIN g[i] : \A k \in DOMAIN g[i][j] :
                  InOneFace(g, i, j, k, px, py, pz)
                      => IsAdjacentCopy(g, StepReflected, i, j, k, px, py, pz)]_vars

\* the sign the "temperature" boundary condition gives the padded cell: one
\* negation for each x face, y face and the bottom z face the cell lies in
TemperatureSign(g, i, j, k, px, py, pz) ==
    LET negations == (IF InLow(i, px) \/ InHigh(i, Shape(g)[1], px) THEN 1 ELSE 0)
                     + (IF InLow(j, py) \/ InHigh(j, Shape(g)[2], py) THEN 1 ELSE 0)
                     + (IF InLow(k, pz) THEN 1 ELSE 0)
    IN  IF negations % 2 = 0 THEN 1 ELSE -1

\* C20: with boundary condition "temperature", diffuse negates exactly five
\* of the six padded faces (both x faces, both y faces and the bottom z face)
\* and leaves the top z face un-negated.
C20_TemperatureFiveFaces ==
    [][(HasPadded /\ mesh_parameters.boundary_condition = "temperature") =>
          LET g == last_grid_padded'
              px == StepPad(mesh.x_step)
              py == StepPad(mesh.y_step)
              pz == StepPad(mesh.z_step)
          IN  /\ Shape(g) = Shape(StepReflected)
              /\ \A i \in DOMAIN g : \A j \in DOMAIN g[i] : \A k \in DOMAIN g[i][j] :
                     g[i][j][k] = TemperatureSign(g, i, j, k, px, py, pz) * StepReflected[i][j][k]]_vars

\* a dwell diffused, under "temperature", a grid with a hot spot: grid_padded
\* holds the negated hot spot in an x face and the un-negated one in the top z face
C20_Witness ==
    /\ Len(calls) >= 2
    /\ LastCall.op = "diffuse" /\ LastCall.dt > 0
    /\ calls[Len(calls) - 1].op = "graft" /\ calls[Len(calls) - 1].theta = "hotspot"
    /\ mesh_parameters.boundary_condition = "temperature"
    /\ raised = NoException
    /\ Shape(last_grid_padded) = <<5, 5, 7>>
    /\ \E j \in 1..3, k \in 2..4 : last_grid_padded[0][j][k] < 0
    /\ \E i \in 1..3, j \in 1..3 : last_grid_padded[i][j][6] > 0

(***************************************************************************)
(* Layer driver: Solver.run_layer                                          *)
(*                                                                         *)
(* run_layer is written against an earlier interface of SolverMesh and     *)
(* EagarTsai.  SolverMesh.__init__ takes no argument, initialize_grid      *)
(* takes (mesh_parameters, fill_value) and EagarTsai.__call__ takes         *)
(* (solver_mesh, segment); run_layer calls SolverMesh(self.config,         *)
(* mesh_config), initialize_grid(initial_temperature) and model(segment).  *)
(* The first of these is the first to run, and it raises TypeError.  The   *)
(* loop body, which would call the model, diffuse, update_xy, graft and    *)
(* save in that order, is therefore never entered.                         *)
(***************************************************************************)
MaxLayerSegments == 3

\* segments of a layer; distance_xy / scan_velocity is a dwell of 1 or 0
LayerSegmentChoices ==
    {[x_next |-> 8, y_next |-> 8, distance_xy |-> 8, angle_xy |-> <<1, 0>>, travel |-> FALSE],
     [x_next |-> 16, y_next |-> 8, distance_xy |-> 8, angle_xy |-> <<1, 0>>, travel |-> FALSE],
     [x_next |-> 16, y_next |-> 16, distance_xy |-> 0, angle_xy |-> <<1, 0>>, travel |-> TRUE]}

\* what no statement of run_layer changes
RunFrame ==
    UNCHANGED <<mesh_parameters, grid_offset, raised, calls, layer_segments,
                segvars, pairvars, iovars, diffvars, parsevars, mapvars, slicervars>>

\* run_name, run_out_path.mkdir(exist_ok=True, parents=True), initial_temperature
RunMakeDirectory ==
    /\ pc = "mkdir"
    /\ run_out_path' = TRUE
    /\ pc' = "mesh"
    /\ UNCHANGED <<mesh, run_raised, run_calls, snapshots>>
    /\ RunFrame

\* solver_mesh = SolverMesh(self.config, mesh_config): SolverMesh.__init__(self)
\* takes no argument, so the call raises TypeError for every input and
\* run_layer ends here.  No mesh exists, initialize_grid (which is moreover
\* called without its fill_value), the model and the loop over the segments
\* are never reached, and nothing is written under run_out_path.
RunConstructMesh ==
    /\ pc = "mesh"
    /\ run_raised' = "TypeError"
    /\ pc' = "raised"
    /\ UNCHANGED <<mesh, run_out_path, run_calls, snapshots>>
    /\ RunFrame

InitLayer ==
    /\ mesh_parameters = MeshParametersOf(<<0, 24, 8>>, <<0, 24, 8>>, <<0, 12, 4>>, "temperature")
    /\ grid_offset \in FillValues
    /\ mesh = NewMesh
    /\ raised = NoException
    /\ calls = <<>>
    /\ PairIdle
    /\ SegIdle
    /\ IoIdle /\ DiffIdle /\ ParseIdle /\ MapIdle /\ SlicerIdle
    /\ layer_segments \in SeqsUpTo(LayerSegmentChoices, MaxLayerSegments)
    /\ pc = "mkdir"
    /\ run_out_path = FALSE
    /\ run_raised = NoException
    /\ run_calls = <<>>
    /\ snapshots = <<>>

NextLayer ==
    \/ RunMakeDirectory
    \/ RunConstructMesh

SpecLayer == InitLayer /\ [][NextLayer]_vars

\* the order of the calls of one per-segment step, as claimed
ClaimedStepOrder == <<"diffuse", "forward", "graft", "update_xy", "save">>

\* C18: in each per-segment step the calls occur in the order diffuse ->
\* heat source -> graft -> update_xy -> save, graft is made with the tool
\* index as it is before that step's update_xy, and the segments are
\* processed one at a time in list order.
C18_StepOrder ==
    pc \notin {"mkdir", "mesh"} =>
        /\ Len(run_calls) = Len(ClaimedStepOrder) * Len(layer_segments)
        /\ \A n \in 1..Len(run_calls) :
              LET position == (n - 1) % Len(ClaimedStepOrder)
              IN  /\ run_calls[n].op = ClaimedStepOrder[position + 1]
                  /\ run_calls[n].segment_index = (n - 1) \div Len(ClaimedStepOrder)
                  /\ run_calls[n].op = "graft"
                        => run_calls[n].tool_index = run_calls[n - position].tool_index

(***************************************************************************)
(* Parser: gcode_to_commands                                               *)
(*                                                                         *)
(* A line of the file is held as what pygcode makes of it: a linear move   *)
(* (G1) with the words X, Y, Z and E it carries, another instruction, a    *)
(* line without instruction (blank or comment), or a malformed line, on    *)
(* which Line(line_text) raises GCodeWordStrError.  An absent word is      *)
(* NoWord; a word of value v is <<v>>.  The unit is given by the caller.   *)
(***************************************************************************)
MaxLines == 3

NoWord == <<>>

GcodeLine(kind, X, Y, Z, E) == [kind |-> kind, X |-> X, Y |-> Y, Z |-> Z, E |-> E]

GcodeLineChoices ==
    {GcodeLine("linear_move", <<15>>, <<0>>, NoWord, <<1>>),
     GcodeLine("linear_move", NoWord, NoWord, <<1>>, NoWord),
     GcodeLine("linear_move", <<15>>, <<20>>, NoWord, NoWord),
     GcodeLine("linear_move", <<0>>, NoWord, <<2>>, <<1>>),
     GcodeLine("linear_move", NoWord, NoWord, NoWord, <<2>>),
     GcodeLine("other", <<0>>, NoWord, NoWord, NoWord),
     GcodeLine("none", NoWord, NoWord, NoWord, NoWord),
     GcodeLine("malformed", NoWord, NoWord, NoWord, NoWord)}

\* the exception Line(line_text) raises, or NoException
LineRaises(line) == IF line.kind = "malformed" THEN "GCodeWordStrError" ELSE NoException

\* len(gcodes) and isinstance(gcodes[0], GCodeLinearMove)
IsLinearMove(line) == line.kind = "linear_move"

\* the keys of coordinates_dict
CoordinateKeys(line) == {k \in {"X", "Y", "Z"} : line[k] # NoWord}

\* an explicit Z layer change: coordinates_dict holds Z only
IsLayerChangeMutantAnyZ(line) == "Z" \in CoordinateKeys(line)

IsLayerChange(line) == CoordinateKeys(line) = {"Z"}

\* extrusion_dict["E"], 0.0 when the line has no E word
Extrusion(line) == IF line.E = NoWord THEN 0 ELSE line.E[1]

\* current_command after the line has overwritten the values it carries
OverwrittenCommandMutantKeepE(current_command, line) ==
    [x |-> IF line.X # NoWord THEN line.X[1] ELSE current_command.x,
     y |-> IF line.Y # NoWord THEN line.Y[1] ELSE current_command.y,
     z |-> IF line.Z # NoWord THEN line.Z[1] ELSE current_command.z,
     e |-> IF line.E # NoWord THEN line.E[1] ELSE current_command.e]

OverwrittenCommand(current_command, line) ==
    [x |-> IF line.X # NoWord THEN line.X[1] ELSE current_command.x,
     y |-> IF line.Y # NoWord THEN line.Y[1] ELSE current_command.y,
     z |-> IF line.Z # NoWord THEN line.Z[1] ELSE current_command.z,
     e |-> Extrusion(line)]

\* current_command before the first line
InitialCommand == [x |-> 0, y |-> 0, z |-> 0, e |-> 0]

\* the address of current_command.copy(): a new dict
CommandCopyAddressMutantAlias(objects) == 1

CommandCopyAddress(objects) == Len(objects) + 1

\* the state of the parse before the first line: the dict current_command is
\* the object at address 1, self.commands is cleared and holds addresses,
\* self.commands_layer_change_indexes is kept
ParseStart(indexes) ==
    [objects |-> <<InitialCommand>>, parsed_commands |-> <<>>,
     indexes |-> indexes, raised |-> NoException]

\* the loop over the lines from line n on; an exception ends it
RECURSIVE ParseLoop(_, _, _)
ParseLoop(lines, n, state) ==
    IF n > Len(lines) THEN state
    ELSE LET line == lines[n]
         IN  IF LineRaises(line) # NoException
             THEN [state EXCEPT !.raised = LineRaises(line)]
             ELSE IF ~IsLinearMove(line) THEN ParseLoop(lines, n + 1, state)
             ELSE LET overwritten == [state.objects EXCEPT
                                         ![1] = OverwrittenCommand(state.objects[1], line)]
                      address == CommandCopyAddress(overwritten)
                  IN  ParseLoop(lines, n + 1,
                          [objects |-> IF address = Len(overwritten) + 1
                                       THEN Append(overwritten, overwritten[1])
                                       ELSE overwritten,
                           parsed_commands |-> Append(state.parsed_commands, address),
                           indexes |-> IF IsLayerChange(line)
                                       THEN Append(state.indexes, Len(state.parsed_commands))
                                       ELSE state.indexes,
                           raised |-> NoException])

\* self.commands as a list of dicts
CommandList(state) ==
    [k \in 1..Len(state.parsed_commands) |-> state.objects[state.parsed_commands[k]]]

\* the values ureg_default_system may take
DefaultSystems == {"cgs", "mks"}

\* the `unit` argument: left at its default None, or a unit string
UnitArguments == {NoUnit, <<"mm">>}

\* `if unit is None`: "m" is taken on an mks registry, but the `if` that
\* follows tests for cgs and raises in its else branch, on mks as well
UnitRaises(system, unit) ==
    IF unit = NoUnit /\ system # "cgs" THEN "Exception" ELSE NoException

\* the unit string ureg.parse_units is given
ResolvedUnit(system, unit) ==
    IF unit # NoUnit THEN unit
    ELSE IF system = "cgs" THEN <<"cm">>
    ELSE IF system = "mks" THEN <<"m">>
    ELSE NoUnit

\* the first gcode_to_commands(path, unit) on the instance: a call that
\* raises on its unit leaves the instance as it was
GcodeToCommands(unit) ==
    /\ ~parsed
    /\ parsed' = TRUE
    /\ IF UnitRaises(default_system, unit) # NoException
       THEN /\ parse_raised' = UnitRaises(default_system, unit)
            /\ UNCHANGED <<self_commands, commands_layer_change_indexes, command_unit>>
       ELSE LET result == ParseLoop(gcode_lines, 1, ParseStart(commands_layer_change_indexes))
            IN  /\ command_unit' = ResolvedUnit(default_system, unit)
                /\ self_commands' = CommandList(result)
                /\ commands_layer_change_indexes' = result.indexes
                /\ parse_raised' = result.raised
    /\ UNCHANGED <<default_system, gcode_lines, pending_files,
                   segvars, meshvars, pairvars, iovars, diffvars, drivervars, mapvars, slicervars>>

\* a later gcode_to_commands(path, unit) on the same instance
GcodeToCommandsAgain(unit) ==
    /\ parsed
    /\ pending_files # <<>>
    /\ gcode_lines' = Head(pending_files)
    /\ pending_files' = Tail(pending_files)
    /\ IF UnitRaises(default_system, unit) # NoException
       THEN /\ parse_raised' = UnitRaises(default_system, unit)
            /\ UNCHANGED <<self_commands, commands_layer_change_indexes, command_unit>>
       ELSE LET result == ParseLoop(Head(pending_files), 1, ParseStart(commands_layer_change_indexes))
            IN  /\ command_unit' = ResolvedUnit(default_system, unit)
                /\ self_commands' = CommandList(result)
                /\ commands_layer_change_indexes' = result.indexes
                /\ parse_raised' = result.raised
    /\ UNCHANGED <<default_system, parsed,
                   segvars, meshvars, pairvars, iovars, diffvars, drivervars, mapvars, slicervars>>

InitParse ==
    /\ default_system \in DefaultSystems
    /\ gcode_lines \in SeqsUpTo(GcodeLineChoices, MaxLines)
    /\ pending_files = <<>>
    /\ parsed = FALSE
    /\ self_commands = <<>>
    /\ commands_layer_change_indexes = <<>>
    /\ command_unit = NoUnit
    /\ parse_raised = NoException
    /\ SegIdle
    /\ MeshIdle
    /\ IoIdle /\ DiffIdle /\ DriverIdle /\ MapIdle /\ SlicerIdle

NextParse == \E unit \in UnitArguments : GcodeToCommands(unit)

SpecParse == InitParse /\ [][NextParse]_vars

\* the last gcode_to_commands call got to the file: it did not raise on its unit
Opened == parsed /\ parse_raised # "Exception"

\* the lines that are linear moves: the input with the malformed lines and
\* the other instructions removed
LinearMoves(lines) == SelectSeq(lines, IsLinearMove)

\* C14: a malformed line is skipped and parsing continues, and instructions
\* that are not linear moves append no command: the command list equals the
\* one obtained from the input with those lines removed.
C14_MalformedSkipped ==
    Opened =>
        /\ parse_raised = NoException
        /\ self_commands = CommandList(ParseLoop(LinearMoves(gcode_lines), 1, ParseStart(<<>>)))

\* the lines the loop gets through: those before the first line that raises
Processed(lines) ==
    LET raising == {n \in 1..Len(lines) : LineRaises(lines[n]) # NoException}
    IN  IF raising = {} THEN lines
        ELSE SubSeq(lines, 1, (CHOOSE n \in raising : \A m \in raising : n <= m) - 1)

\* the linear-move instructions of the parsed file, in program order
Moves == LinearMoves(Processed(gcode_lines))

\* C24: parsing follows modal semantics: each linear move overwrites only
\* the axes x, y, z it names, every axis it omits keeps the value of the
\* previous command (0 at the start), and e is the instruction's E value, or
\* 0 when it has none.
C24_ModalSemantics ==
    Opened =>
        /\ Len(self_commands) = Len(Moves)
        /\ \A k \in 1..Len(self_commands) :
              LET line == Moves[k]
                  previous == IF k = 1 THEN [x |-> 0, y |-> 0, z |-> 0] ELSE self_commands[k - 1]
              IN  /\ self_commands[k].x = (IF line.X # NoWord THEN line.X[1] ELSE previous.x)
                  /\ self_commands[k].y = (IF line.Y # NoWord THEN line.Y[1] ELSE previous.y)
                  /\ self_commands[k].z = (IF line.Z # NoWord THEN line.Z[1] ELSE previous.z)
                  /\ self_commands[k].e = (IF line.E # NoWord THEN line.E[1] ELSE 0)

\* a move that names Z only followed a move to x = 15 with extrusion: x is
\* kept, z is overwritten, e is back to 0
C24_Witness ==
    /\ parsed
    /\ \E k \in 2..Len(self_commands) :
          /\ Moves[k].X = NoWord /\ Moves[k].Z # NoWord /\ Moves[k].E = NoWord
          /\ self_commands[k - 1].x # 0 /\ self_commands[k].x = self_commands[k - 1].x
          /\ self_commands[k].z # self_commands[k - 1].z
          /\ self_commands[k - 1].e # 0 /\ self_commands[k].e = 0

\* C25: every appended command is an independent copy: the commands held
\* after any number of lines are still there, unchanged and in the same
\* places, after all the later lines have been parsed, and the list holds
\* one command per linear move.
C25_AppendedNeverChanged ==
    Opened =>
        /\ Len(self_commands) = Len(Moves)
        /\ \A n \in 0..Len(gcode_lines) :
              LET earlier == CommandList(ParseLoop(SubSeq(gcode_lines, 1, n), 1, ParseStart(<<>>)))
              IN  /\ Len(earlier) <= Len(self_commands)
                  /\ earlier = SubSeq(self_commands, 1, Len(earlier))

\* three linear moves were parsed and left three different commands
C25_Witness ==
    /\ parsed
    /\ Len(self_commands) = 3
    /\ self_commands[1] # self_commands[2]
    /\ self_commands[2] # self_commands[3]
    /\ self_commands[1] # self_commands[3]
    /\ <<self_commands[1].x, self_commands[1].y>> # <<self_commands[3].x, self_commands[3].y>>

\* the 0-based places, among the linear moves, of those that name Z and neither X nor Y
ZOnlyIndexes(moves) ==
    SelectSeq([k \in 1..Len(moves) |-> k - 1],
              LAMBDA i : moves[i + 1].Z # NoWord /\ moves[i + 1].X = NoWord /\ moves[i + 1].Y = NoWord)

\* C26: a linear move that sets only Z records, as a layer change, the index
\* that the command appended for it has in the command list; a move that
\* sets Z together with X or Y, or no Z, records nothing.
C26_LayerChangeIndexes ==
    Opened =>
        /\ commands_layer_change_indexes = ZOnlyIndexes(Moves)
        /\ \A n \in 1..Len(commands_layer_change_indexes) :
              LET command_index == commands_layer_change_indexes[n]
              IN  /\ command_index < Len(self_commands)
                  /\ self_commands[command_index + 1].z = Moves[command_index + 1].Z[1]

\* a move naming X and Z, then a move naming Z only, then a move naming no
\* Z: only index 1 is recorded
C26_Witness ==
    /\ parsed
    /\ Len(Moves) = 3
    /\ Moves[1].Z # NoWord /\ Moves[1].X # NoWord
    /\ Moves[3].Z = NoWord
    /\ commands_layer_change_indexes = <<1>>
    /\ Len(self_commands) = 3

(***************************************************************************)
(* Parser: gcode_to_commands called again on the same instance             *)
(***************************************************************************)
MaxReparses == 1

\* the lines of the files: a move that sets Z only, a move in the plane
ReparseLineChoices ==
    {GcodeLine("linear_move", NoWord, NoWord, <<1>>, NoWord),
     GcodeLine("linear_move", <<15>>, <<20>>, NoWord, NoWord)}

ReparseFiles == SeqsUpTo(ReparseLineChoices, MaxLines)

InitReparse ==
    /\ default_system \in DefaultSystems
    /\ gcode_lines \in ReparseFiles
    /\ pending_files \in SeqsUpTo(ReparseFiles, MaxReparses)
    /\ parsed = FALSE
    /\ self_commands = <<>>
    /\ commands_layer_change_indexes = <<>>
    /\ command_unit = NoUnit
    /\ parse_raised = NoException
    /\ SegIdle
    /\ MeshIdle
    /\ IoIdle /\ DiffIdle /\ DriverIdle /\ MapIdle /\ SlicerIdle

NextReparse ==
    \/ \E unit \in UnitArguments : GcodeToCommands(unit)
    \/ \E unit \in UnitArguments : GcodeToCommandsAgain(unit)

SpecReparse == InitReparse /\ [][NextReparse]_vars

\* C27: after any sequence of gcode_to_commands calls on one instance, every
\* entry of commands_layer_change_indexes is a valid index into the current
\* commands list and refers to a command produced by a Z-only instruction of
\* the file parsed last.
C27_IndexesValidAfterReparse ==
    Opened =>
        \A n \in 1..Len(commands_layer_change_indexes) :
            LET command_index == commands_layer_change_indexes[n]
            IN  /\ 0 <= command_index /\ command_index < Len(self_commands)
                /\ Moves[command_index + 1].Z # NoWord
                /\ Moves[command_index + 1].X = NoWord
                /\ Moves[command_index + 1].Y = NoWord

\* C29: after initialize_grid, any sequence of diffuse (dt > 0, either
\* boundary condition), update_xy and graft calls keeps the shape of the grid
\* equal to (len(x_range), len(y_range), len(z_range)): the padding that
\* diffuse adds is cropped away completely.
C29_ShapePreserved ==
    Initialized =>
        /\ Shape(mesh.grid) = <<Size(mesh.x_range), Size(mesh.y_range), Size(mesh.z_range)>>
        /\ DOMAIN mesh.grid = DOMAIN mesh.x_range
        /\ \A i \in DOMAIN mesh.grid :
              /\ DOMAIN mesh.grid[i] = DOMAIN mesh.y_range
              /\ \A j \in DOMAIN mesh.grid[i] : DOMAIN mesh.grid[i][j] = DOMAIN mesh.z_range

\* a heated grid was diffused over a dwell after the tool had moved: the
\* padded array was larger than the grid on every axis, the grid is not
\* uniform and has its shape
C29_Witness ==
    /\ Len(calls) = 3
    /\ calls[1].op = "update_xy"
    /\ calls[2].op = "graft" /\ calls[2].theta = "hotspot"
    /\ calls[3].op = "diffuse" /\ calls[3].dt > 0
    /\ Initialized
    /\ raised = NoException
    /\ last_grid_padded # EmptyArray
    /\ Shape(last_grid_padded)[1] > Size(mesh.x_range)
    /\ Shape(last_grid_padded)[2] > Size(mesh.y_range)
    /\ Shape(last_grid_padded)[3] > Size(mesh.z_range)
    /\ ~Uniform(mesh.grid, grid_offset)
    /\ Shape(mesh.grid) = <<3, 3, 3>>

(***************************************************************************)
(* Tool position: update_xy and graft                                      *)
(*                                                                         *)
(* The grid is x, y in [0, 24) u with step 8 u (3 cells, centre index 1)   *)
(* and z in [0, 12) u with step 4 u.                                       *)
(***************************************************************************)
\* segments whose end point lies inside the domain [start, end) of x and y
ToolSegments ==
    {[x_next |-> xy[1], y_next |-> xy[2], distance_xy |-> 8, angle_xy |-> <<1, 0>>, travel |-> FALSE] :
        xy \in {<<8, 8>>, <<16, 12>>, <<0, 4>>, <<21, 0>>, <<20, 23>>}}

NextTool ==
    \/ InitializeGrid
    \/ \E segment \in ToolSegments : UpdateXY(segment)
    \/ \E name \in LocalFieldNames : Graft(name)

SpecTool == InitMesh /\ [][NextTool]_vars

\* C21: graft shifts the local field cyclically by (tool index - grid centre
\* index) along x and y only, wrapping around the edges of the domain,
\* subtracts grid_offset and adds the result cell by cell into the grid; the
\* axis vectors and the tool position are left as they were.
C21_GraftCyclicShift ==
    [][(Initialized /\ IsCall("graft")) =>
          LET theta == Theta(calls'[Len(calls')].theta, mesh, grid_offset)
              nx == Size(mesh.x_range)
              ny == Size(mesh.y_range)
              x_shift == mesh.x_index - nx \div 2
              y_shift == mesh.y_index - ny \div 2
          IN  /\ raised' = NoException
              /\ Shape(mesh'.grid) = Shape(mesh.grid)
              /\ \A i \in 0..(nx - 1) : \A j \in 0..(ny - 1) : \A k \in DOMAIN mesh.z_range :
                    mesh'.grid[i][j][k] =
                        mesh.grid[i][j][k] + theta[(i - x_shift) % nx][(j - y_shift) % ny][k] - grid_offset
              /\ [mesh' EXCEPT !.grid = mesh.grid] = mesh]_vars

\* the tool is at index (0, 0), one cell below the centre on both axes, and
\* graft has carried the hot corner cell (0, 0) of the local field across
\* the edge to cell (2, 2) of the same z layer
C21_Witness ==
    /\ Len(calls) >= 2
    /\ LastCall.op = "graft" /\ LastCall.theta = "corner"
    /\ calls[Len(calls) - 1].op = "update_xy"
    /\ Initialized
    /\ raised = NoException
    /\ mesh.x_index = 0 /\ mesh.y_index = 0
    /\ mesh.grid[2][2][2] = grid_offset + 100
    /\ mesh.grid[0][0][2] = grid_offset
    /\ mesh.grid[2][2][0] = grid_offset

\* C22: update_xy in "absolute" mode sets the tool position to the
\* segment's x_next, y_next and the tool index to round((pos - start) / step)
\* on each axis, whatever the previous tool position was; the grid and the z
\* position are unchanged.
C22_UpdateXYAbsolute ==
    [][(Initialized /\ IsCall("update_xy")) =>
          LET call == calls'[Len(calls')]
          IN  /\ raised' = NoException
              /\ mesh'.x = call.x_next
              /\ mesh'.y = call.y_next
              /\ mesh'.x_index = Round(call.x_next - mesh_parameters.x_start, mesh_parameters.x_step)
              /\ mesh'.y_index = Round(call.y_next - mesh_parameters.y_start, mesh_parameters.y_step)
              /\ mesh'.grid = mesh.grid
              /\ mesh'.z = mesh.z /\ mesh'.z_index = mesh.z_index]_vars

\* the tool went to y = 4 u (index 0) and from there to (16, 12) u: the
\* index of y is round(12 / 8) = 2, not 0 + round(8 / 8) = 1
C22_Witness ==
    /\ Len(calls) >= 2
    /\ LastCall.op = "update_xy" /\ LastCall.x_next = 16 /\ LastCall.y_next = 12
    /\ calls[Len(calls) - 1].op = "update_xy" /\ calls[Len(calls) - 1].y_next = 4
    /\ Initialized
    /\ raised = NoException
    /\ mesh.x = 16 /\ mesh.y = 12
    /\ mesh.x_index = 2 /\ mesh.y_index = 2

\* the end point of every update_xy call made so far lies in [start, end) on x and y
EndpointsInDomain ==
    \A n \in 1..Len(calls) :
        calls[n].op = "update_xy" =>
            /\ mesh_parameters.x_start <= calls[n].x_next /\ calls[n].x_next < mesh_parameters.x_end
            /\ mesh_parameters.y_start <= calls[n].y_next /\ calls[n].y_next < mesh_parameters.y_end

\* C28: after any sequence of update_xy calls whose end points lie inside
\* the domain [start, end) of each axis, the tool indices satisfy
\* 0 <= x_index < len(x_range) and 0 <= y_index < len(y_range).
C28_ToolIndexInGrid ==
    (Initialized /\ EndpointsInDomain) =>
        /\ 0 <= mesh.x_index /\ mesh.x_index < Size(mesh.x_range)
        /\ 0 <= mesh.y_index /\ mesh.y_index < Size(mesh.y_range)

(***************************************************************************)
(* Process map: run_process_map                                            *)
(*                                                                         *)
(* BuildParameters objects live in heap, by address; address 1 is the      *)
(* build_parameters argument.  A task holds the address of the object it   *)
(* was given.  The worker pool runs at most num_proc tasks at a time and   *)
(* the tasks finish in any order; as_completed hands the finished futures  *)
(* to the collecting loop in any order.                                    *)
(***************************************************************************)
MaxPoints == 3

\* the build parameters a process map may vary, and the values it gives them
ParameterLists == {<<>>, <<"beam_power">>, <<"beam_power", "scan_velocity">>}

ParameterValues == {1, 2}

\* the build_parameters argument
DefaultBuildParameters ==
    [beam_power |-> 1, scan_velocity |-> 1, hatch_spacing |-> 2, layer_height |-> 1]

\* process maps: the parameter names and, for each point, one value per parameter
ProcessMaps ==
    UNION {{[parameters |-> names, points |-> list] :
               list \in SeqsUpTo([1..Len(names) -> ParameterValues], MaxPoints)} :
           names \in ParameterLists}

\* Rosenthal(build_parameters, material).solve_melt_pool_dimensions()
MeltPoolDimensions(build_parameters) ==
    LET width == (4 * build_parameters.beam_power) \div build_parameters.scan_velocity
    IN  [width |-> width, depth |-> width \div 2, length |-> 2 * width]

\* lack_of_fusion(hatch_spacing, layer_height, width, depth)
LackOfFusion(hatch_spacing, layer_height, width, depth) ==
    hatch_spacing * hatch_spacing * depth * depth + layer_height * layer_height * width * width
        > width * width * depth * depth

\* run_process_map_point(build_parameters, material)
RunProcessMapPoint(build_parameters) ==
    LET melt_pool_dimensions == MeltPoolDimensions(build_parameters)
    IN  [build_parameters |-> build_parameters,
         melt_pool_dimensions |-> melt_pool_dimensions,
         melt_pool_classifications |->
             [lack_of_fusion |-> LackOfFusion(build_parameters.hatch_spacing,
                                              build_parameters.layer_height,
                                              melt_pool_dimensions.width,
                                              melt_pool_dimensions.depth)]]

\* the object after modified_build_parameters.__setattr__(parameter, point[index])
\* for every parameter of the process map
Overridden(build_parameters, parameters, point) ==
    [name \in DOMAIN build_parameters |->
        IF \E index \in 1..Len(parameters) : parameters[index] = name
        THEN point[CHOOSE index \in 1..Len(parameters) :
                      /\ parameters[index] = name
                      /\ \A later \in (index + 1)..Len(parameters) : parameters[later] # name]
        ELSE build_parameters[name]]

\* the address of modified_build_parameters = deepcopy(build_parameters)
CopyAddressMutantAlias(objects) == 1

CopyAddress(objects) == Len(objects) + 1

\* heap with object stored at address
Stored(objects, address, object) ==
    IF address = Len(objects) + 1 THEN Append(objects, object)
    ELSE [objects EXCEPT ![address] = object]

\* ProcessMapPoints(points=points): parameters keeps its default, []
ProcessMapPoints(point_list) == [parameters |-> <<>>, points |-> point_list]

NumPoints == Len(process_map.points)

Running == returned = <<>>

\* one pass of the loop of the single-process branch
SequentialPoint ==
    /\ Running
    /\ num_proc <= 1
    /\ Len(points) < NumPoints
    /\ LET address == CopyAddress(heap)
           modified == Overridden(heap[1], process_map.parameters,
                                  process_map.points[Len(points) + 1])
       IN  /\ heap' = Stored(heap, address, modified)
           /\ points' = Append(points, RunProcessMapPoint(heap'[address]))
    /\ UNCHANGED <<process_map, num_proc, args_list, futures, returned,
                   segvars, meshvars, pairvars, iovars, diffvars, drivervars, parsevars, slicervars>>

\* one pass of the loop that builds args_list
PrepareArgs ==
    /\ Running
    /\ num_proc > 1
    /\ Len(args_list) < NumPoints
    /\ LET address == CopyAddress(heap)
           modified == Overridden(heap[1], process_map.parameters,
                                  process_map.points[Len(args_list) + 1])
       IN  /\ heap' = Stored(heap, address, modified)
           /\ args_list' = Append(args_list, address)
    /\ UNCHANGED <<process_map, num_proc, futures, points, returned,
                   segvars, meshvars, pairvars, iovars, diffvars, drivervars, parsevars, slicervars>>

\* executor.submit(run_process_map_point, *args) for the next args
Submit ==
    /\ Running
    /\ num_proc > 1
    /\ Len(args_list) = NumPoints
    /\ Len(futures) < NumPoints
    /\ futures' = Append(futures, [state |-> "pending", result |-> <<>>, collected |-> FALSE])
    /\ UNCHANGED <<process_map, num_proc, heap, args_list, points, returned,
                   segvars, meshvars, pairvars, iovars, diffvars, drivervars, parsevars, slicervars>>

\* a free worker takes task i
StartTask(i) ==
    /\ futures[i].state = "pending"
    /\ Cardinality({j \in 1..Len(futures) : futures[j].state = "running"}) < num_proc
    /\ futures' = [futures EXCEPT ![i].state = "running"]
    /\ UNCHANGED <<process_map, num_proc, heap, args_list, points, returned,
                   segvars, meshvars, pairvars, iovars, diffvars, drivervars, parsevars, slicervars>>

\* the worker of task i returns its point
FinishTask(i) ==
    /\ futures[i].state = "running"
    /\ futures' = [futures EXCEPT ![i].state = "finished",
                                  ![i].result = <<RunProcessMapPoint(heap[args_list[i]])>>]
    /\ UNCHANGED <<process_map, num_proc, heap, args_list, points, returned,
                   segvars, meshvars, pairvars, iovars, diffvars, drivervars, parsevars, slicervars>>

\* as_completed yields the finished future i; its result is appended
Collect(i) ==
    /\ Running
    /\ Len(futures) = NumPoints
    /\ futures[i].state = "finished"
    /\ ~futures[i].collected
    /\ futures' = [futures EXCEPT ![i].collected = TRUE]
    /\ points' = Append(points, futures[i].result[1])
    /\ UNCHANGED <<process_map, num_proc, heap, args_list, returned,
                   segvars, meshvars, pairvars, iovars, diffvars, drivervars, parsevars, slicervars>>

\* process_map_points = ProcessMapPoints(points=points); save; return
ReturnPoints ==
    /\ Running
    /\ Len(points) = NumPoints
    /\ returned' = <<ProcessMapPoints(points)>>
    /\ UNCHANGED <<process_map, num_proc, heap, args_list, futures, points,
                   segvars, meshvars, pairvars, iovars, diffvars, drivervars, parsevars, slicervars>>

InitMap ==
    /\ process_map \in ProcessMaps
    /\ num_proc \in {1, 2}
    /\ heap = <<DefaultBuildParameters>>
    /\ args_list = <<>>
    /\ futures = <<>>
    /\ points = <<>>
    /\ returned = <<>>
    /\ SegIdle
    /\ MeshIdle
    /\ IoIdle /\ DiffIdle /\ DriverIdle /\ ParseIdle /\ SlicerIdle

NextMap ==
    \/ SequentialPoint
    \/ PrepareArgs
    \/ Submit
    \/ \E i \in 1..Len(futures) : StartTask(i)
    \/ \E i \in 1..Len(futures) : FinishTask(i)
    \/ \E i \in 1..Len(futures) : Collect(i)
    \/ ReturnPoints

SpecMap == InitMap /\ [][NextMap]_vars

\* C16: run_process_map returns a ProcessMapPoints whose parameters list
\* equals the parameter names of the process map, in order, with one point
\* per point of the process map.
C16_ParametersReturned ==
    returned # <<>> =>
        /\ returned[1].parameters = process_map.parameters
        /\ Len(returned[1].points) = Len(process_map.points)

\* the list of points the single-process run builds
SequentialPoints ==
    [k \in 1..NumPoints |->
        RunProcessMapPoint(Overridden(DefaultBuildParameters, process_map.parameters,
                                      process_map.points[k]))]

\* number of entries of list equal to x
Count(list, x) == Cardinality({k \in 1..Len(list) : list[k] = x})

SameMultiset(a, b) ==
    /\ Len(a) = Len(b)
    /\ \A k \in 1..Len(a) : Count(a, a[k]) = Count(b, a[k])

\* C17: run on a worker pool (num_proc > 1), the points returned are, under
\* every completion order, the same multiset as those of the single-process
\* run; each task holds its own copy of the build parameters, and the
\* build_parameters argument is left as it was.
C17_PoolSameMultiset ==
    /\ num_proc > 1 =>
          /\ \A i, j \in 1..Len(args_list) :
                /\ args_list[i] # 1
                /\ i # j => args_list[i] # args_list[j]
          /\ heap[1] = DefaultBuildParameters
    /\ (num_proc > 1 /\ returned # <<>>) => SameMultiset(returned[1].points, SequentialPoints)

\* a pool run has returned points of different parameters in an order other
\* than that of the process map
C17_Witness ==
    /\ num_proc > 1
    /\ returned # <<>>
    /\ Len(returned[1].points) >= 2
    /\ returned[1].points # SequentialPoints
    /\ SameMultiset(returned[1].points, SequentialPoints)

(***************************************************************************)
(* Slicer: SlicerPlanar.slice_sections                                     *)
(*                                                                         *)
(* The sections are held as their number.  In the multi-process branch one *)
(* infill task and one contour task are submitted per section; the pool    *)
(* runs at most num_proc of them at a time and as_completed hands the      *)
(* finished futures to the collecting loop in any order.                   *)
(***************************************************************************)
MaxSections == 2

Slicing == ~slicer_returned

PendingTask == [state |-> "pending", collected |-> FALSE]

\* one pass of the loop of the single-process branch
SliceSection ==
    /\ Slicing
    /\ slicer_num_proc <= 1
    /\ slicer_section_index < total_sections
    /\ slicer_section_index' = slicer_section_index + 1
    /\ progress_calls' =
          IF has_progress_callback
          THEN Append(progress_calls, [current |-> slicer_section_index + 1, total |-> total_sections])
          ELSE progress_calls
    /\ UNCHANGED <<total_sections, has_progress_callback, slicer_num_proc, slicer_futures,
                   completed_count, slicer_returned,
                   segvars, meshvars, pairvars, iovars, diffvars, drivervars, parsevars, mapvars>>

\* executor.submit(infill_rectilinear, *args) for the next section
SubmitInfill ==
    /\ Slicing
    /\ slicer_num_proc > 1
    /\ Len(slicer_futures) < total_sections
    /\ slicer_futures' = Append(slicer_futures, PendingTask)
    /\ UNCHANGED <<total_sections, has_progress_callback, slicer_num_proc, slicer_section_index,
                   completed_count, progress_calls, slicer_returned,
                   segvars, meshvars, pairvars, iovars, diffvars, drivervars, parsevars, mapvars>>

\* executor.submit(contour_generate, *args) for the next section
SubmitContour ==
    /\ Slicing
    /\ slicer_num_proc > 1
    /\ Len(slicer_futures) >= total_sections
    /\ Len(slicer_futures) < 2 * total_sections
    /\ slicer_futures' = Append(slicer_futures, PendingTask)
    /\ UNCHANGED <<total_sections, has_progress_callback, slicer_num_proc, slicer_section_index,
                   completed_count, progress_calls, slicer_returned,
                   segvars, meshvars, pairvars, iovars, diffvars, drivervars, parsevars, mapvars>>

\* a free worker takes task i
StartSliceTask(i) ==
    /\ slicer_futures[i].state = "pending"
    /\ Cardinality({j \in 1..Len(slicer_futures) : slicer_futures[j].state = "running"}) < slicer_num_proc
    /\ slicer_futures' = [slicer_futures EXCEPT ![i].state = "running"]
    /\ UNCHANGED <<total_sections, has_progress_callback, slicer_num_proc, slicer_section_index,
                   completed_count, progress_calls, slicer_returned,
                   segvars, meshvars, pairvars, iovars, diffvars, drivervars, parsevars, mapvars>>

\* the worker of task i is done
FinishSliceTask(i) ==
    /\ slicer_futures[i].state = "running"
    /\ slicer_futures' = [slicer_futures EXCEPT ![i].state = "finished"]
    /\ UNCHANGED <<total_sections, has_progress_callback, slicer_num_proc, slicer_section_index,
                   completed_count, progress_calls, slicer_returned,
                   segvars, meshvars, pairvars, iovars, diffvars, drivervars, parsevars, mapvars>>

\* as_completed yields the finished future i: completed_count += 1, then the callback
CollectSliceTask(i) ==
    /\ Slicing
    /\ slicer_num_proc > 1
    /\ Len(slicer_futures) = 2 * total_sections
    /\ slicer_futures[i].state = "finished"
    /\ ~slicer_futures[i].collected
    /\ slicer_futures' = [slicer_futures EXCEPT ![i].collected = TRUE]
    /\ completed_count' = completed_count + 1
    /\ progress_calls' =
          IF has_progress_callback
          THEN Append(progress_calls, [current |-> completed_count + 1, total |-> total_sections])
          ELSE progress_calls
    /\ UNCHANGED <<total_sections, has_progress_callback, slicer_num_proc, slicer_section_index,
                   slicer_returned,
                   segvars, meshvars, pairvars, iovars, diffvars, drivervars, parsevars, mapvars>>

\* return infill_data_out_path
SliceReturn ==
    /\ Slicing
    /\ IF slicer_num_proc <= 1 THEN slicer_section_index = total_sections
       ELSE /\ Len(slicer_futures) = 2 * total_sections
            /\ \A i \in 1..Len(slicer_futures) : slicer_futures[i].collected
    /\ slicer_returned' = TRUE
    /\ UNCHANGED <<total_sections, has_progress_callback, slicer_num_proc, slicer_section_index,
                   slicer_futures, completed_count, progress_calls,
                   segvars, meshvars, pairvars, iovars, diffvars, drivervars, parsevars, mapvars>>

InitSlicer ==
    /\ total_sections \in 0..MaxSections
    /\ has_progress_callback \in BOOLEAN
    /\ slicer_num_proc \in {1, 2}
    /\ slicer_section_index = 0
    /\ slicer_futures = <<>>
    /\ completed_count = 0
    /\ progress_calls = <<>>
    /\ slicer_returned = FALSE
    /\ SegIdle
    /\ MeshIdle
    /\ IoIdle /\ DiffIdle /\ DriverIdle /\ ParseIdle /\ MapIdle

NextSlicer ==
    \/ SliceSection
    \/ SubmitInfill
    \/ SubmitContour
    \/ \E i \in 1..Len(slicer_futures) : StartSliceTask(i)
    \/ \E i \in 1..Len(slicer_futures) : FinishSliceTask(i)
    \/ \E i \in 1..Len(slicer_futures) : CollectSliceTask(i)
    \/ SliceReturn

SpecSlicer == InitSlicer /\ [][NextSlicer]_vars

\* C30: in slice_sections, single-process or multi-process and under every
\* completion order, every progress_callback(current, total) call has
\* 1 <= current <= total, current never decreases, and the last call has
\* current = total.
C30_ProgressWithinTotal ==
    /\ \A n \in 1..Len(progress_calls) :
          /\ 1 <= progress_calls[n].current
          /\ progress_calls[n].current <= progress_calls[n].total
          /\ n > 1 => progress_calls[n - 1].current <= progress_calls[n].current
    /\ (slicer_returned /\ progress_calls # <<>>) =>
          progress_calls[Len(progress_calls)].current = progress_calls[Len(progress_calls)].total

(***************************************************************************)
(* Segment persistence: Segment.to_dict / from_dict, save_segments and     *)
(* load_segments                                                           *)
(*                                                                         *)
(* A Python number is held with its type: an int n as                      *)
(* [kind |-> "int", value |-> n], a float as [kind |-> "float",            *)
(* value |-> t] where t is the value in tenths.  A Quantity is a number    *)
(* and the canonical name of its unit.  A segment is a function from the   *)
(* field names to Quantities, and to a boolean for "travel".               *)
(***************************************************************************)
MaxSegments == 2

QuantityFields == {"x", "y", "z", "e", "x_next", "y_next", "z_next", "e_next",
                   "angle_xy", "distance_xy"}

SegmentFields == QuantityFields \cup {"travel"}

\* the unit a unit string names
ParseUnits(units) ==
    IF units \in {"mm", "millimeter"} THEN "millimeter"
    ELSE IF units \in {"deg", "degree"} THEN "degree"
    ELSE IF units \in {"rad", "radian"} THEN "radian"
    ELSE units

\* Quantity(magnitude, units)
Quantity(magnitude, units) == [magnitude |-> magnitude, units |-> ParseUnits(units)]

\* Segment._quantity_to_dict: {"magnitude": q.magnitude, "units": str(q.units)}
QuantityToDict(q) == [magnitude |-> q.magnitude, units |-> q.units]

\* Segment._dict_to_quantity
DictToQuantity(d) == Quantity(d.magnitude, d.units)

\* Segment.to_dict
ToDict(segment) ==
    [f \in SegmentFields |-> IF f = "travel" THEN segment[f] ELSE QuantityToDict(segment[f])]

\* the exception parse_quantity raises on the dict v, or NoException.  The
\* statement is `raise ValidationError(f"...")` with pydantic's ValidationError,
\* which has no one-argument constructor: building the exception fails, so what
\* leaves the validator is the builtin TypeError.
ParseQuantityRaises(v) ==
    IF v.magnitude.kind # "float" THEN "TypeError" ELSE NoException

\* the exception Segment.from_dict raises, or NoException
FromDictRaises(data) ==
    IF \E f \in QuantityFields : ParseQuantityRaises(data[f]) # NoException
    THEN "TypeError" ELSE NoException

\* Segment.from_dict
FromDict(data) ==
    [f \in SegmentFields |-> IF f = "travel" THEN data[f] ELSE DictToQuantity(data[f])]

\* json.dumps of a number: the literal as sign, integer digits and fraction
\* digits; an int is written without a fraction part, a float always with one
DumpsNumber(n) ==
    IF n.kind = "int"
    THEN [negative |-> n.value < 0, whole |-> Abs(n.value), fraction |-> <<>>]
    ELSE [negative |-> n.value < 0, whole |-> Abs(n.value) \div 10,
          fraction |-> <<Abs(n.value) % 10>>]

\* json.load of a number literal: an int when it has no fraction part
LoadsNumber(t) ==
    LET sign == IF t.negative THEN -1 ELSE 1
    IN  IF t.fraction = <<>> THEN [kind |-> "int", value |-> sign * t.whole]
        ELSE [kind |-> "float", value |-> sign * (t.whole * 10 + t.fraction[1])]

\* json.dumps(segment_dict)
JsonDumps(segment_dict) ==
    [f \in SegmentFields |->
        IF f = "travel" THEN segment_dict[f]
        ELSE [magnitude |-> DumpsNumber(segment_dict[f].magnitude),
              units |-> segment_dict[f].units]]

\* one object of json.load(f)
JsonLoad(object) ==
    [f \in SegmentFields |->
        IF f = "travel" THEN object[f]
        ELSE [magnitude |-> LoadsNumber(object[f].magnitude), units |-> object[f].units]]

\* the document save_segments writes for the list
SegmentsDocument(list) == [k \in 1..Len(list) |-> JsonDumps(ToDict(list[k]))]

\* the exception load_segments raises on the document, or NoException
LoadSegmentsRaises(document) ==
    IF \E k \in 1..Len(document) : FromDictRaises(JsonLoad(document[k])) # NoException
    THEN "TypeError" ELSE NoException

\* the list load_segments builds from the document
LoadedSegments(document) == [k \in 1..Len(document) |-> FromDict(JsonLoad(document[k]))]

\* save_segments(path) writes self.segments
SaveSegments ==
    /\ segments_file = NoFile
    /\ segments_file' = <<SegmentsDocument(segments)>>
    /\ saved_segments' = segments
    /\ UNCHANGED <<segvars, meshvars, pairvars, loaded, load_raised,
                   diffvars, drivervars, parsevars, mapvars, slicervars>>

\* load_segments(path) assigns self.segments unless from_dict raises
LoadSegments ==
    /\ segments_file # NoFile
    /\ ~loaded
    /\ loaded' = TRUE
    /\ load_raised' = LoadSegmentsRaises(segments_file[1])
    /\ segments' = IF LoadSegmentsRaises(segments_file[1]) = NoException
                   THEN LoadedSegments(segments_file[1]) ELSE segments
    /\ UNCHANGED <<arg_commands, arg_max_length, segmented, segments_pair,
                   meshvars, pairvars, segments_file, saved_segments,
                   diffvars, drivervars, parsevars, mapvars, slicervars>>

\* magnitudes of the fields that vary: floats (as the parser and the
\* arithmetic of commands_to_segments produce) and an int (as
\* max_segment_length = 1 puts into distance_xy)
DistanceQuantities ==
    {Quantity([kind |-> "float", value |-> 15], "millimeter"),
     Quantity([kind |-> "float", value |-> 10], "mm"),
     Quantity([kind |-> "int", value |-> 1], "millimeter")}

AngleQuantities ==
    {Quantity([kind |-> "float", value |-> 0], "radian"),
     Quantity([kind |-> "float", value |-> 300], "degree")}

ExtrusionQuantities ==
    {Quantity([kind |-> "float", value |-> -5], "millimeter"),
     Quantity([kind |-> "float", value |-> 1], "millimeter")}

SavedSegment(distance_xy, angle_xy, e_next, travel) ==
    [f \in SegmentFields |->
        IF f = "travel" THEN travel
        ELSE IF f = "distance_xy" THEN distance_xy
        ELSE IF f = "angle_xy" THEN angle_xy
        ELSE IF f = "e_next" THEN e_next
        ELSE Quantity([kind |-> "float", value |-> 50], "millimeter")]

SavedSegments ==
    {SavedSegment(d, a, e, t) : d \in DistanceQuantities, a \in AngleQuantities,
                                e \in ExtrusionQuantities, t \in BOOLEAN}

InitSegFile ==
    /\ arg_commands = <<>>
    /\ arg_max_length = 5
    /\ segmented = FALSE
    /\ segments \in SeqsUpTo(SavedSegments, MaxSegments)
    /\ segments_pair = <<>>
    /\ MeshIdle
    /\ RestIdle

NextSegFile ==
    \/ SaveSegments
    \/ LoadSegments

SpecSegFile == InitSegFile /\ [][NextSegFile]_vars

\* C11: save_segments followed by load_segments reconstructs, for any list of
\* segments, a list of the same length and order in which every quantity
\* field has the identical magnitude and unit string and travel the identical
\* boolean.
C11_SegmentsRoundTrip ==
    loaded =>
        /\ load_raised = NoException
        /\ Len(segments) = Len(saved_segments)
        /\ \A k \in 1..Len(saved_segments) :
              /\ \A f \in QuantityFields :
                    /\ segments[k][f].magnitude = saved_segments[k][f].magnitude
                    /\ segments[k][f].units = saved_segments[k][f].units
              /\ segments[k]["travel"] = saved_segments[k]["travel"]

(***************************************************************************)
(* Specification of the segmenter                                          *)
(***************************************************************************)
InitSeg ==
    /\ arg_commands \in SeqsUpTo(Commands, MaxCommands)
    /\ arg_max_length \in SegmentLengths
    /\ segmented = FALSE
    /\ segments = <<>>
    /\ segments_pair = <<>>
    /\ MeshIdle
    /\ RestIdle

NextSeg == CommandsToSegments

SpecSeg == InitSeg /\ [][NextSeg]_vars

====
